---- MODULE Spec2Model ----
(***************************************************************************)
(* Document-production pipeline of memoire-t3-whd-habes.                   *)
(*                                                                         *)
(*   Assembler   merge_docs.py       copy_body, setup_sections, main       *)
(*   Converter   convert_to_docx.py  main (external converter and retry)   *)
(*   Normalizer  convert_to_docx.py  resolve_inputs, clean_latex           *)
(*                                                                         *)
(* A document package is a sequence of body children (paragraphs, tables,  *)
(* section-properties nodes) and a relationship table rId -> relationship. *)
(* Markup text is a sequence of tokens: a directive name is one token, a   *)
(* brace is one token, a plain character is one token.                     *)
(***************************************************************************)
EXTENDS Integers, Sequences, FiniteSets, TLC

VARIABLES
    \* ---- Assembler (merge_docs.py) ----
    pc,          \* position of main(): "title","ack","ded","copy","sections","save","done","raised"
    kids,        \* list(body_doc.element.body): children of the source body
    body_rels,   \* body_doc.part.rels: rId -> relationship of the source package
    fb,          \* final_doc.element.body: children of the destination body
    final_rels,  \* final_doc.part.rels: rId -> relationship of the destination package
    copy_ret,    \* what copy_body returned: "none" (not called yet), "true", "false"
    warned,      \* setup_sections printed its warning and returned early
    saved,       \* doc.save(OUTPUT) has run
    fb0,         \* history: the destination body when copy_body was entered
    rels0,       \* history: the destination relationships when copy_body was entered
    fb1,         \* history: the destination body when setup_sections was entered
    \* ---- Converter (convert_to_docx.py, main) ----
    conv_pc,     \* position of main(): "read","write","reference","pandoc","retry","report","done","raised"
    has_doc,     \* the resolved source holds \begin{document}...\end{document}
    written,     \* the files this run has written
    calls,       \* the command lines handed to subprocess.run, in order
    returncodes, \* the return code of each finished invocation, in order
    warnings,    \* number of lines of result.stderr of the first invocation
    out_exists,  \* main_word.docx exists
    printed,     \* what main() has printed: "SUCCESS", "ERROR", warning lines, ...
    \* ---- Normalizer: resolve_inputs ----
    res_pc,      \* "idle", "first" (first call), "second" (call on the first result), "done"
    files,       \* the fragment files of base_dir: file name -> content
    content,     \* the local variable content
    prev,        \* the local variable prev; <<"None">> stands for None
    source,      \* history: the string the first call was given
    resolved,    \* history: what the first call returned
    iters,       \* history: turns of the loop made by the current call
    \* ---- Normalizer: clean_latex ----
    cl_pc,       \* "idle","subs1","fcolorbox","subs2","multirow","subs3","returned","raised"
    text,        \* the local variable body (text inside the two flattening loops)
    text0,       \* history: the argument of clean_latex
    flat,        \* history: what remove_fcolorbox returned
    \* ---- Style Applicator (style_docx.py) and the runs the Assembler synthesizes ----
    sty_pc,      \* "idle","run","styled","front","table","tstyled","footer","main","body","tables","footers","save","done"
    run,         \* the run handed to set_run_font / _rf
    run0,        \* history: that run before the call
    paras,       \* doc.paragraphs: the top-level paragraphs of the document
    tables,      \* doc.tables: the top-level tables, each a sequence of rows of cells
    fparas,      \* footer.paragraphs of the section: each paragraph a sequence of runs
    applied,     \* how many times the footer has been set up
    \* ---- The package files of the three stages ----
    pkgs,        \* the package files of BASE: file name -> content
    loaded,      \* history: the content the Style Applicator loaded last
    ran          \* history: the stage that ran last ("none" before the first)

asmVars == <<pc, kids, body_rels, fb, final_rels, copy_ret, warned, saved, fb0, rels0, fb1>>

convVars == <<conv_pc, has_doc, written, calls, returncodes, warnings, out_exists, printed>>

resVars == <<res_pc, files, content, prev, source, resolved, iters>>

clVars == <<cl_pc, text, text0, flat>>

styVars == <<sty_pc, run, run0, paras, tables, fparas, applied>>

pipeVars == <<pkgs, loaded, ran>>

vars == <<asmVars, convVars, resVars, clVars, styVars, pipeVars>>

----------------------------------------------------------------------------
(* Bounds of the model *)

MaxTail == 2      \* free elements at the end of the source body given to main()
MaxCallTail == 1  \* the same, for a source body given to a direct call of copy_body
MaxFront == 2     \* elements of an arbitrary destination body before its trailing sectPr

(* Program constants *)

FallbackIdx == 25 \* merge_docs.py:280  start_idx when no introduction heading is found

----------------------------------------------------------------------------
(* Sequence helpers *)

Last(s) == s[Len(s)]

InsertAt(s, i, e) == SubSeq(s, 1, i - 1) \o <<e>> \o SubSeq(s, i, Len(s))

Min(S) == CHOOSE x \in S : \A y \in S : x <= y

Max(S) == CHOOSE x \in S : \A y \in S : x >= y

RECURSIVE SeqsUpTo(_, _)
SeqsUpTo(S, n) ==
    IF n = 0 THEN {<<>>}
    ELSE LET shorter == SeqsUpTo(S, n - 1)
         IN  shorter \cup {Append(s, x) : s \in {t \in shorter : Len(t) = n - 1}, x \in S}

----------------------------------------------------------------------------
(* Document elements.                                                      *)
(*   tag     "p" | "tbl" | "sectPr"                                        *)
(*   style   value of w:pPr/w:pStyle ("Heading1", "Normal")                *)
(*   marker  the text of the paragraph contains the introduction marker    *)
(*   pPr     the paragraph has a w:pPr child                               *)
(*   nrun    number of children other than w:pPr                           *)
(*   refs    the r:embed / r:link / r:id attribute values in the subtree   *)
(*   sects   the w:sectPr nodes: of the w:pPr of a paragraph, or the node  *)
(*           itself for a body-level sectPr                                *)
(*   src     history: index in the source body this is a copy of, 0 for an *)
(*           element the destination owns                                  *)
(* A section-properties node holds its break type, page size, margins,     *)
(* numbering start (0: no start attribute), direction flag and primary     *)
(* footer / header: "linked" (no reference), "empty", "page" (the PAGE     *)
(* field triad), "text", or "foreign" (a reference id copied from another  *)
(* package, which the destination package cannot resolve).                 *)

SectPr(type, pgSz, pgMar, start, bidi, footer, header) ==
    [type |-> type, pgSz |-> pgSz, pgMar |-> pgMar, start |-> start,
     bidi |-> bidi, footer |-> footer, header |-> header]

El(tag, style, marker, pPr, nrun, refs, sects) ==
    [tag |-> tag, style |-> style, marker |-> marker, pPr |-> pPr, nrun |-> nrun,
     refs |-> refs, sects |-> sects, src |-> 0]

Tag(ch) == ch.tag

Rel(reltype, is_external, target) ==
    [reltype |-> reltype, is_external |-> is_external, target |-> target]

IMAGE_REL == "image"
HLINK_REL == "hyperlink"

----------------------------------------------------------------------------
(* copy_body (merge_docs.py 272-331) *)

\* body_doc.paragraphs: the top-level w:p children of the body, in order
Paragraphs(body) == SelectSeq(body, LAMBDA ch : Tag(ch) = "p")

\* faulty variant of IsIntroPara: the style is not looked at
IsIntroPara_any_style(p) == p.marker

\* p.style.name: the name the styles part of the source package gives to the
\* style id of the paragraph (the default style without a w:pStyle).  The
\* built-in style 'heading 1' has the id Heading1, or the id a localised
\* word processor wrote for it (Titre1); its name is answered as 'Heading 1'.
StyleName(id) == IF id \in {"Heading1", "Titre1"} THEN "Heading 1" ELSE "Normal"

\* line 278: p.style.name == 'Heading 1' and the marker in p.text
IsIntroPara(p) == StyleName(p.style) = "Heading 1" /\ p.marker

\* faulty variant of start_idx: without an introduction heading the copy
\* starts at the first paragraph
start_idx_from_top(body) ==
    LET ps == Paragraphs(body)
        hits == {i \in 1..Len(ps) : IsIntroPara(ps[i])}
    IN  IF hits # {} THEN Min(hits) - 1 ELSE 0

\* lines 276-280: index (from 0) of the first introduction heading among the
\* paragraphs, FallbackIdx when there is none
start_idx(body) ==
    LET ps == Paragraphs(body)
        hits == {i \in 1..Len(ps) : IsIntroPara(ps[i])}
    IN  IF hits # {} THEN Min(hits) - 1 ELSE FallbackIdx

\* lines 284-291: position (from 1) among the body children of paragraph number
\* sidx; 0 stands for None
el_start(body, sidx) ==
    LET at == {idx \in 1..Len(body) :
                  /\ Tag(body[idx]) = "p"
                  /\ Cardinality({j \in 1..(idx - 1) : Tag(body[j]) = "p"}) = sidx}
    IN  IF at = {} THEN 0 ELSE Min(at)

\* Relationships.get_or_add / get_or_add_ext_rel behind part.relate_to (302, 304):
\* an equal relationship of the package is reused, else the first free rId is taken
next_rId(rels) == Min({n \in 1..(Cardinality(DOMAIN rels) + 1) : n \notin DOMAIN rels})

relate_to(rels, rel) ==
    LET same == {r \in DOMAIN rels : rels[r] = rel}
    IN  IF same # {} THEN [rId |-> Min(same), rels |-> rels]
        ELSE LET n == next_rId(rels) IN [rId |-> n, rels |-> rels @@ (n :> rel)]

\* lines 301 and 303: the relationships copy_body re-registers
IsMappedRel(rel) ==
    \/ rel.reltype = IMAGE_REL /\ ~rel.is_external
    \/ rel.reltype = HLINK_REL /\ rel.is_external

\* lines 298-305: the loop over body_doc.part.rels.values(), in rId order;
\* acc is [rid_map, rels]: the map so far and the destination relationships
RECURSIVE map_rels(_, _, _)
map_rels(todo, srels, acc) ==
    IF todo = {} THEN acc
    ELSE LET r == Min(todo)
         IN  IF IsMappedRel(srels[r])
             THEN LET got == relate_to(acc.rels, srels[r])
                  IN  map_rels(todo \ {r}, srels,
                               [rid_map |-> acc.rid_map @@ (r :> got.rId), rels |-> got.rels])
             ELSE map_rels(todo \ {r}, srels, acc)

\* a header / footer reference of a copied sectPr keeps its source id, which
\* the destination package does not hold
CopiedSect(sp) ==
    [sp EXCEPT !.footer = IF @ = "linked" THEN "linked" ELSE "foreign",
               !.header = IF @ = "linked" THEN "linked" ELSE "foreign"]

\* faulty variant of copy_remap: the map is applied again to the new value
copy_remap_again(ch, rid_map) ==
    LET once(v) == IF v \in DOMAIN rid_map THEN rid_map[v] ELSE v
    IN  [ch EXCEPT !.refs = [i \in DOMAIN ch.refs |-> once(once(ch.refs[i]))],
                   !.sects = [i \in DOMAIN ch.sects |-> CopiedSect(ch.sects[i])]]

\* lines 320-324: deep copy, then every reference attribute found in rid_map
\* is rewritten, each attribute once
copy_remap(ch, rid_map) ==
    [ch EXCEPT !.refs = [i \in DOMAIN ch.refs |->
                            IF ch.refs[i] \in DOMAIN rid_map THEN rid_map[ch.refs[i]]
                            ELSE ch.refs[i]],
               !.sects = [i \in DOMAIN ch.sects |-> CopiedSect(ch.sects[i])]]

\* lines 310-313: position of the last body-level sectPr, 0 for None
last_sect(body) ==
    LET at == {i \in 1..Len(body) : Tag(body[i]) = "sectPr"}
    IN  IF at = {} THEN 0 ELSE Max(at)

\* faulty variant of insert_copy: always fb.append(ne)
insert_copy_at_end(cur, ls, ne) == Append(cur, ne)

\* lines 325-328: before last_sect when there is one, else at the end
insert_copy(cur, ls, ne) == IF ls # 0 THEN InsertAt(cur, ls, ne) ELSE Append(cur, ne)

\* lines 316-329: the copy loop from position idx; ls is where last_sect now is
RECURSIVE copy_from(_, _, _, _, _)
copy_from(body, idx, rid_map, cur, ls) ==
    IF idx > Len(body) THEN cur
    ELSE IF Tag(body[idx]) = "sectPr" THEN copy_from(body, idx + 1, rid_map, cur, ls)
    ELSE copy_from(body, idx + 1, rid_map,
                   insert_copy(cur, ls, copy_remap(body[idx], rid_map)),
                   IF ls # 0 THEN ls + 1 ELSE 0)

\* faulty variant of after_copy_body: main stops when copy_body returns False
after_copy_body_checked(ret) == IF ret = "false" THEN "done" ELSE "sections"

\* main, line 469: the value copy_body returns is not looked at
after_copy_body(ret) == "sections"

copy_body ==
    /\ pc = "copy"
    /\ fb0' = fb
    /\ rels0' = final_rels
    /\ LET es == el_start(kids, start_idx(kids))
       IN  IF es = 0
           THEN /\ copy_ret' = "false"
                /\ UNCHANGED <<fb, final_rels>>
           ELSE LET m == map_rels(DOMAIN body_rels, body_rels,
                                  [rid_map |-> <<>>, rels |-> final_rels])
                IN  /\ final_rels' = m.rels
                    /\ fb' = copy_from(kids, es, m.rid_map, fb, last_sect(fb))
                    /\ copy_ret' = "true"
    /\ pc' = after_copy_body(copy_ret')
    /\ UNCHANGED <<kids, body_rels, warned, saved, fb1>>
    /\ UNCHANGED <<convVars, resVars, clVars, styVars, pipeVars>>

----------------------------------------------------------------------------
(* setup_sections (merge_docs.py 336-424) *)

\* faulty variant of intro_index: the style of the paragraph is not looked at
intro_index_by_marker(body) ==
    LET at == {i \in 1..Len(body) : Tag(body[i]) = "p" /\ body[i].marker}
    IN  IF at = {} THEN 0 ELSE Min(at)

\* lines 342-351: the first top-level paragraph with a w:pPr whose w:pStyle is
\* Heading1 and whose w:t text holds the marker; 0 for None
intro_index(body) ==
    LET at == {i \in 1..Len(body) :
                  /\ Tag(body[i]) = "p"
                  /\ body[i].pPr
                  /\ body[i].style = "Heading1"
                  /\ body[i].marker}
    IN  IF at = {} THEN 0 ELSE Min(at)

\* lines 358-362: the nearest top-level paragraph before position idx; 0 for None
prev_index(body, idx) ==
    LET at == {i \in 1..(idx - 1) : Tag(body[i]) = "p"}
    IN  IF at = {} THEN 0 ELSE Max(at)

\* line 364, "if prev:": the truth value of an element is whether it has children
Truthy(ch) == ch.pPr \/ ch.nrun > 0

\* lines 368-378: the section break setup_sections builds
NewBreak == SectPr("nextPage", "A4", "thesis", 0, TRUE, "linked", "linked")

\* lines 364-379: the break goes into the w:pPr of prev, created when missing
add_break(body, idx) ==
    LET j == prev_index(body, idx)
    IN  IF j # 0 /\ Truthy(body[j])
        THEN [body EXCEPT ![j] = [@ EXCEPT !.pPr = TRUE, !.sects = Append(@, NewBreak)]]
        ELSE body

\* faulty variant of rewrite_last: the w:pgNumType start is not written
rewrite_last_keep_start(body) ==
    LET ls == last_sect(body)
    IN  IF ls = 0 THEN body
        ELSE [body EXCEPT ![ls].sects[1] =
                 [@ EXCEPT !.pgSz = "A4", !.pgMar = "thesis", !.bidi = TRUE]]

\* lines 382-398: page size, margins, numbering start and direction of the last
\* body-level sectPr are replaced
rewrite_last(body) ==
    LET ls == last_sect(body)
    IN  IF ls = 0 THEN body
        ELSE [body EXCEPT ![ls].sects[1] =
                 [@ EXCEPT !.pgSz = "A4", !.pgMar = "thesis", !.start = 1, !.bidi = TRUE]]

\* doc.sections: every sectPr of the document in document order, as
\* <<position of the body child, position in its sects>>
RECURSIVE sections_from(_, _)
sections_from(body, i) ==
    IF i > Len(body) THEN <<>>
    ELSE [k \in 1..Len(body[i].sects) |-> <<i, k>>] \o sections_from(body, i + 1)

sections(body) == sections_from(body, 1)

SectAt(body, s) == body[s[1]].sects[s[2]]

\* lines 401-415: the footer of the last section is unlinked, cleared and
\* given the PAGE field
page_footer(body) ==
    LET s == Last(sections(body))
    IN  [body EXCEPT ![s[1]].sects[s[2]].footer = "page"]

\* lines 419-424, one section: footer then header are unlinked and cleared; a
\* reference the package cannot resolve raises, and the except clause ends
\* the work on that section
clear_section(sp) ==
    IF sp.footer = "foreign" THEN sp
    ELSE IF sp.header = "foreign" THEN [sp EXCEPT !.footer = "empty"]
    ELSE [sp EXCEPT !.footer = "empty", !.header = "empty"]

\* lines 418-424: every section but the last
clear_front(body) ==
    LET secs == sections(body)
        front == {secs[n] : n \in 1..(Len(secs) - 1)}
    IN  [i \in 1..Len(body) |->
            [body[i] EXCEPT !.sects =
                [k \in 1..Len(body[i].sects) |->
                    IF <<i, k>> \in front THEN clear_section(body[i].sects[k])
                    ELSE body[i].sects[k]]]]

setup_sections ==
    /\ pc = "sections"
    /\ fb1' = fb
    /\ LET idx == intro_index(fb)
       IN  IF idx = 0
           THEN \* lines 353-354: warning, return
                /\ warned' = TRUE
                /\ pc' = "save"
                /\ UNCHANGED fb
           ELSE LET b == rewrite_last(add_break(fb, idx))
                    secs == sections(b)
                IN  /\ UNCHANGED warned
                    /\ IF secs = <<>> \/ SectAt(b, Last(secs)).footer = "foreign"
                       THEN \* line 401 (IndexError) or line 403 (KeyError): not caught
                            /\ fb' = b
                            /\ pc' = "raised"
                       ELSE /\ fb' = clear_front(page_footer(b))
                            /\ pc' = "save"
    /\ UNCHANGED <<kids, body_rels, final_rels, copy_ret, saved, fb0, rels0>>
    /\ UNCHANGED <<convVars, resVars, clVars, styVars, pipeVars>>

----------------------------------------------------------------------------
(* main (merge_docs.py 429-494) *)

\* a paragraph made by _ap / _deco: Normal style, w:pPr, one run
FrontPara == El("p", "Normal", FALSE, TRUE, 1, <<>>, <<>>)

\* a paragraph made by _ap with empty text: w:pPr, no run
FrontBlank == El("p", "Normal", FALSE, TRUE, 0, <<>>, <<>>)

FrontTable == El("tbl", "", FALSE, FALSE, 1, <<>>, <<>>)

\* doc.add_paragraph / doc.add_table: before the trailing sectPr of the body
add_block(body, ch) ==
    IF body # <<>> /\ Tag(Last(body)) = "sectPr"
    THEN InsertAt(body, Len(body), ch)
    ELSE Append(body, ch)

RECURSIVE add_blocks(_, _)
add_blocks(body, chs) ==
    IF chs = <<>> THEN body ELSE add_blocks(add_block(body, chs[1]), Tail(chs))

\* lines 434-456: Document(), page setup, default paragraph removed
NewDocument ==
    <<El("sectPr", "", FALSE, FALSE, 0, <<>>,
         <<SectPr("none", "A4", "thesis", 0, FALSE, "linked", "linked")>>)>>

\* the relationships of the package Document() opens (styles, settings, ...)
NewDocumentRels == (1 :> Rel("styles", FALSE, "styles.xml"))

\* lines 109-176: first paragraph, the two-column table, last paragraph
build_title_page ==
    /\ pc = "title"
    /\ fb' = add_blocks(fb, <<FrontPara, FrontTable, FrontBlank, FrontPara>>)
    /\ pc' = "ack"
    /\ UNCHANGED <<kids, body_rels, final_rels, copy_ret, warned, saved, fb0, rels0, fb1>>
    /\ UNCHANGED <<convVars, resVars, clVars, styVars, pipeVars>>

\* lines 179-221: page-break paragraph, text, closing decoration
build_acknowledgments ==
    /\ pc = "ack"
    /\ fb' = add_blocks(fb, <<FrontBlank, FrontPara, FrontPara>>)
    /\ pc' = "ded"
    /\ UNCHANGED <<kids, body_rels, final_rels, copy_ret, warned, saved, fb0, rels0, fb1>>
    /\ UNCHANGED <<convVars, resVars, clVars, styVars, pipeVars>>

\* lines 224-267
build_dedication ==
    /\ pc = "ded"
    /\ fb' = add_blocks(fb, <<FrontBlank, FrontPara, FrontBlank, FrontPara>>)
    /\ pc' = "copy"
    /\ UNCHANGED <<kids, body_rels, final_rels, copy_ret, warned, saved, fb0, rels0, fb1>>
    /\ UNCHANGED <<convVars, resVars, clVars, styVars, pipeVars>>

\* line 474: doc.save(OUTPUT)
save ==
    /\ pc = "save"
    /\ saved' = TRUE
    /\ pc' = "done"
    /\ UNCHANGED <<kids, body_rels, fb, final_rels, copy_ret, warned, fb0, rels0, fb1>>
    /\ UNCHANGED <<convVars, resVars, clVars, styVars, pipeVars>>

----------------------------------------------------------------------------
(* The packages the Assembler is given *)

\* the relationships of the source package: an embedded image, an external
\* hyperlink, a linked (external) image, a part of another type, a footer
SourceRels ==
    <<Rel(IMAGE_REL, FALSE, "media/image1.png"),
      Rel(HLINK_REL, TRUE, "http://example.org"),
      Rel(IMAGE_REL, TRUE, "file:///linked.png"),
      Rel("chart", FALSE, "charts/chart1.xml"),
      Rel("footer", FALSE, "footer1.xml")>>

Plain == El("p", "Normal", FALSE, TRUE, 1, <<>>, <<>>)

\* the kinds of element of a source body
SourceKinds ==
    {El("p", "Normal", FALSE, TRUE, 1, <<1>>, <<>>),      \* paragraph with an embedded image
     El("p", "Heading1", FALSE, TRUE, 1, <<2>>, <<>>),    \* heading 1 with a hyperlink
     El("p", "Normal", TRUE, TRUE, 1, <<3>>, <<>>),       \* marker text, linked image
     El("p", "Heading1", TRUE, TRUE, 1, <<>>, <<>>),      \* the introduction heading
     El("p", "Titre1", TRUE, TRUE, 1, <<>>, <<>>),        \* the same, localised style id
     El("p", "", FALSE, FALSE, 0, <<>>, <<>>),            \* <w:p/>
     El("tbl", "", FALSE, FALSE, 1, <<4>>, <<>>),         \* table with a chart
     El("sectPr", "", FALSE, FALSE, 0, <<>>,
        <<SectPr("none", "A4", "thesis", 0, TRUE, "page", "linked")>>),
     El("p", "Normal", FALSE, TRUE, 1, <<5>>,             \* paragraph ending a section
        <<SectPr("nextPage", "A4", "thesis", 0, TRUE, "text", "linked")>>)}

\* source bodies: a run of plain paragraphs, then up to MaxTail free elements
PrefixLens == {0} \cup ((FallbackIdx - 1)..(FallbackIdx + 1))

Numbered(body) == [i \in 1..Len(body) |-> [body[i] EXCEPT !.src = i]]

SourceBodiesUpTo(m) ==
    {Numbered([i \in 1..n |-> Plain] \o tail) :
        n \in PrefixLens, tail \in SeqsUpTo(SourceKinds, m)}

SourceBodies == SourceBodiesUpTo(MaxTail)

CallBodies == SourceBodiesUpTo(MaxCallTail)

\* the kinds of element of an arbitrary destination body
FinalKinds ==
    {FrontPara,
     El("p", "", FALSE, FALSE, 0, <<>>, <<>>),
     El("p", "Heading1", TRUE, TRUE, 1, <<>>, <<>>),
     FrontTable}

FinalBodies ==
    {front \o trailer : front \in SeqsUpTo(FinalKinds, MaxFront),
                        trailer \in {<<>>, NewDocument}}

FinalRels ==
    {<<>>, NewDocumentRels,
     NewDocumentRels @@ (2 :> Rel(IMAGE_REL, FALSE, "media/image1.png"))}

----------------------------------------------------------------------------
(* Converter: main() of convert_to_docx.py *)

MaxWarnings == 6  \* lines of diagnostic text the converter may leave on stderr

ShownWarnings == 5 \* convert_to_docx.py:392  more lines than this are cut to the first ones

pandoc_tex == "main_pandoc.tex"

ref_docx == "reference.docx"

output_docx == "main_word.docx"

\* lines 359-369
cmd ==
    <<"pandoc", pandoc_tex, "-f", "latex", "-t", "docx", "-o", output_docx,
      "--reference-doc", ref_docx, "-M", "dir:rtl", "-M", "lang:ar", "--wrap=none">>

\* Mutation: the retry repeats the first command line
cmd2_same_options == cmd

\* lines 376-383
cmd2 ==
    <<"pandoc", pandoc_tex, "-f", "latex", "-t", "docx", "-o", output_docx,
      "--reference-doc", ref_docx>>

\* result.returncode of the external converter
ReturnCodes == {0, 1, 2}

Msg(m, n) == [msg |-> m, n |-> n]

\* Mutation: the run goes on without the document markers
after_read_unchecked(doc_match) == "write"

\* lines 321-323: "if not doc_match: ... return", before anything is written
after_read(doc_match) == IF doc_match THEN "write" ELSE "done"

\* lines 311-326: read main.tex, resolve the inclusions, look for the document body
conv_read ==
    /\ conv_pc = "read"
    /\ conv_pc' = after_read(has_doc)
    /\ printed' = IF has_doc THEN printed
                  ELSE Append(printed, Msg("ERROR: Could not find document", 0))
    /\ UNCHANGED <<has_doc, written, calls, returncodes, warnings, out_exists>>
    /\ UNCHANGED <<asmVars, resVars, clVars, styVars, pipeVars>>

\* lines 328-349: clean the body and write main_pandoc.tex
conv_write_tex ==
    /\ conv_pc = "write"
    /\ written' = written \cup {pandoc_tex}
    /\ printed' = Append(printed, Msg("Written: main_pandoc.tex", 0))
    /\ conv_pc' = "reference"
    /\ UNCHANGED <<has_doc, calls, returncodes, warnings, out_exists>>
    /\ UNCHANGED <<asmVars, resVars, clVars, styVars, pipeVars>>

\* lines 351-354 and create_reference_docx (201-302)
conv_reference ==
    /\ conv_pc = "reference"
    /\ written' = written \cup {ref_docx}
    /\ printed' = Append(printed, Msg("Created reference DOCX", 0))
    /\ conv_pc' = "pandoc"
    /\ UNCHANGED <<has_doc, calls, returncodes, warnings, out_exists>>
    /\ UNCHANGED <<asmVars, resVars, clVars, styVars, pipeVars>>

\* lines 371-374: the first invocation; the tool decides its return code, how
\* many lines it leaves on stderr and whether it creates the output file
conv_pandoc ==
    /\ conv_pc = "pandoc"
    /\ \E rc \in ReturnCodes, n \in 0..MaxWarnings, made \in BOOLEAN :
        /\ calls' = Append(calls, cmd)
        /\ returncodes' = Append(returncodes, rc)
        /\ warnings' = n
        /\ out_exists' = (out_exists \/ made)
        /\ IF rc # 0
           THEN /\ printed' = Append(printed, Msg("pandoc stderr", n))
                /\ conv_pc' = "retry"
           ELSE /\ printed' = printed
                /\ conv_pc' = "report"
    /\ UNCHANGED <<has_doc, written>>
    /\ UNCHANGED <<asmVars, resVars, clVars, styVars, pipeVars>>

\* lines 375-387: the retry with the shorter command line
conv_retry ==
    /\ conv_pc = "retry"
    /\ \E rc \in ReturnCodes, made \in BOOLEAN :
        /\ calls' = Append(calls, cmd2)
        /\ returncodes' = Append(returncodes, rc)
        /\ out_exists' = (out_exists \/ made)
        /\ IF rc # 0
           THEN /\ printed' = printed \o <<Msg("Retrying with simpler options", 0),
                                          Msg("pandoc error", 0)>>
                /\ conv_pc' = "done"
           ELSE /\ printed' = Append(printed, Msg("Retrying with simpler options", 0))
                /\ conv_pc' = "report"
    /\ UNCHANGED <<has_doc, written, warnings>>
    /\ UNCHANGED <<asmVars, resVars, clVars, styVars, pipeVars>>

\* lines 371, 384: subprocess.run raises OSError when the tool cannot be started
conv_oserror ==
    /\ conv_pc \in {"pandoc", "retry"}
    /\ calls' = Append(calls, IF conv_pc = "pandoc" THEN cmd ELSE cmd2)
    /\ conv_pc' = "raised"
    /\ UNCHANGED <<has_doc, written, returncodes, warnings, out_exists, printed>>
    /\ UNCHANGED <<asmVars, resVars, clVars, styVars, pipeVars>>

\* lines 389-398
warning_lines ==
    IF warnings = 0 THEN <<>>
    ELSE IF warnings > ShownWarnings
         THEN <<Msg("pandoc: warnings (showing first)", ShownWarnings)>>
         ELSE <<Msg("pandoc warning", warnings)>>

\* lines 389-407
conv_report ==
    /\ conv_pc = "report"
    /\ printed' = printed \o warning_lines \o
                  <<IF out_exists THEN Msg("SUCCESS", 0)
                                  ELSE Msg("ERROR: Output file was not created", 0)>>
    /\ conv_pc' = "done"
    /\ UNCHANGED <<has_doc, written, calls, returncodes, warnings, out_exists>>
    /\ UNCHANGED <<asmVars, resVars, clVars, styVars, pipeVars>>

----------------------------------------------------------------------------
(* Normalizer: resolve_inputs of convert_to_docx.py *)

MaxPieces == 2    \* pieces a source string is made of
MaxText == 8      \* resolve_inputs is followed while content is at most this long
MaxTurns == 4     \* the turns of the loop are counted up to this number

None == <<"None">>

TexExt == ".tex"

\* index of the first "}" of c at or after i; 0 when there is none
first_close(c, i) ==
    LET S == {j \in i..Len(c) : c[j] = "}"}
    IN  IF S = {} THEN 0 ELSE Min(S)

\* Mutation: a directive whose target is missing is dropped
replace_input_drop(fs, fn, whole) ==
    LET filename == IF Last(fn) = TexExt THEN fn ELSE Append(fn, TexExt)
    IN  IF filename \in DOMAIN fs THEN fs[filename] ELSE <<>>

\* lines 55-63: the replacement of one match; fn is group(1), whole is group(0)
replace_input(fs, fn, whole) ==
    LET filename == IF Last(fn) = TexExt THEN fn ELSE Append(fn, TexExt)
    IN  IF filename \in DOMAIN fs THEN fs[filename] ELSE whole

\* line 68: re.sub(r'\\input\{([^}]+)\}', replace_input, content), one pass from
\* the left over the matches that do not overlap; a replacement is not scanned again
RECURSIVE sub_input(_, _, _)
sub_input(fs, c, i) ==
    IF i > Len(c) THEN <<>>
    ELSE LET j == IF c[i] = "\\input" /\ i + 1 <= Len(c) /\ c[i + 1] = "{"
                  THEN first_close(c, i + 2) ELSE 0
         IN  IF j > i + 2
             THEN replace_input(fs, SubSeq(c, i + 2, j - 1), SubSeq(c, i, j))
                     \o sub_input(fs, c, j + 1)
             ELSE <<c[i]>> \o sub_input(fs, c, i + 1)

\* Mutation: a single substitution pass
loop_once(p, c) == p = None

\* line 66: while prev != content
loop_cond(p, c) == p # c

\* lines 66-68: one turn of the loop
resolve_iter ==
    /\ res_pc \in {"first", "second"}
    /\ loop_cond(prev, content)
    /\ Len(content) <= MaxText
    /\ prev' = content
    /\ content' = sub_input(files, content, 1)
    /\ iters' = Min({iters + 1, MaxTurns})
    /\ UNCHANGED <<res_pc, files, source, resolved>>
    /\ UNCHANGED <<asmVars, convVars, clVars, styVars, pipeVars>>

\* line 69: return content; the result of the first call is given to a second call
resolve_return ==
    /\ res_pc \in {"first", "second"}
    /\ ~loop_cond(prev, content)
    /\ IF res_pc = "first"
       THEN /\ resolved' = content
            /\ prev' = None
            /\ iters' = 0
            /\ res_pc' = "second"
       ELSE /\ res_pc' = "done"
            /\ UNCHANGED <<prev, resolved, iters>>
    /\ UNCHANGED <<files, content, source>>
    /\ UNCHANGED <<asmVars, convVars, clVars, styVars, pipeVars>>

\* \input{n}
Input(n) == <<"\\input", "{">> \o n \o <<"}">>

FileA == <<"a", TexExt>>

FileB == <<"b", TexExt>>

SourcePieces ==
    { <<"x">>, <<"}">>, <<"\\input", "{">>, Input(<<>>),
      Input(<<"a">>), Input(FileA), Input(<<"b">>) }

RECURSIVE Concats(_, _)
Concats(P, n) ==
    IF n = 0 THEN {<<>>}
    ELSE LET R == Concats(P, n - 1)
         IN  R \cup {r \o p : r \in R, p \in P}

Sources == Concats(SourcePieces, MaxPieces)

\* what a.tex and b.tex may hold; a file may include the other file or itself
ContentsA == { <<>>, <<"x">>, Input(<<"b">>), <<"a", "}">>, <<"x">> \o Input(<<"a">>) }

ContentsB == { <<"x">>, <<"\\input">>, Input(FileA) }

FileSets ==
    {<<>>}
    \cup {[n \in {FileA} |-> ca] : ca \in ContentsA}
    \cup {[n \in {FileB} |-> cb] : cb \in ContentsB}
    \cup {[n \in {FileA, FileB} |-> IF n = FileA THEN ca ELSE cb] :
             ca \in ContentsA, cb \in ContentsB}

----------------------------------------------------------------------------
(* Normalizer: clean_latex of convert_to_docx.py *)

MaxCleanPieces == 3  \* pieces the argument of clean_latex is made of

\* re.sub(r'\\name\{([^}]*)\}', repl, t): repl is r'\1' when keep, '' otherwise
RECURSIVE sub_braced(_, _, _, _)
sub_braced(t, name, keep, i) ==
    IF i > Len(t) THEN <<>>
    ELSE LET j == IF t[i] = name /\ i + 1 <= Len(t) /\ t[i + 1] = "{"
                  THEN first_close(t, i + 2) ELSE 0
         IN  IF j # 0
             THEN (IF keep THEN SubSeq(t, i + 2, j - 1) ELSE <<>>)
                     \o sub_braced(t, name, keep, j + 1)
             ELSE <<t[i]>> \o sub_braced(t, name, keep, i + 1)

\* a token that spells a longer directive name: the name it begins with ("" for
\* the other tokens); what follows that name is the letter x
PrefixOf(tok) ==
    CASE tok = "\\vfillx" -> "\\vfill"
      [] tok = "\\largex" -> "\\large"
      [] tok = "\\vspacex" -> "\\vspace"
      [] OTHER -> ""

\* re.sub(r'\\name', repl, t) for a directive without arguments: the pattern has
\* no word boundary, so it also matches the beginning of a longer name
RECURSIVE sub_plain(_, _, _, _)
sub_plain(t, name, repl, i) ==
    IF i > Len(t) THEN <<>>
    ELSE (IF t[i] = name THEN repl
          ELSE IF PrefixOf(t[i]) = name THEN repl \o <<"x">>
          ELSE <<t[i]>>) \o sub_plain(t, name, repl, i + 1)

\* tokens whose first character is a word character of the regular expressions
WordTokens ==
    {"x", "1cm", "buhalis2020", "cooper2018", "nokey", "Buhalis, 2020", "Cooper, 2018"}

\* lines 104-106: re.sub(rf'\\{cmd}\b', '', t); the name has to end at a word boundary
RECURSIVE sub_word(_, _, _)
sub_word(t, name, i) ==
    IF i > Len(t) THEN <<>>
    ELSE (IF t[i] = name /\ (i = Len(t) \/ t[i + 1] \notin WordTokens)
          THEN <<>> ELSE <<t[i]>>) \o sub_word(t, name, i + 1)

\* n groups \{[^}]*\} from index i; the index of the last closing brace, 0 when
\* they are not there (with n = 0 the index before i)
RECURSIVE args_end(_, _, _)
args_end(t, i, n) ==
    IF n = 0 THEN i - 1
    ELSE IF i <= Len(t) /\ t[i] = "{"
         THEN LET j == first_close(t, i + 1)
              IN  IF j = 0 THEN 0 ELSE args_end(t, j + 1, n - 1)
         ELSE 0

\* re.sub(r'\\name\*?\{[^}]*\}...', '', t) with n brace groups; \*? only when star
RECURSIVE sub_args(_, _, _, _, _)
sub_args(t, name, star, n, i) ==
    IF i > Len(t) THEN <<>>
    ELSE LET a == IF star /\ i + 1 <= Len(t) /\ t[i + 1] = "*" THEN i + 2 ELSE i + 1
             j == IF t[i] = name THEN args_end(t, a, n) ELSE 0
         IN  IF j # 0 THEN sub_args(t, name, star, n, j + 1)
             ELSE <<t[i]>> \o sub_args(t, name, star, n, i + 1)

Pass(name, star, args) == [name |-> name, star |-> star, args |-> args]

\* lines 88-101: the patterns of the visual and page directives, in their order
Listed ==
    << Pass("\\vspace", TRUE, 1), Pass("\\vfill", FALSE, 0), Pass("\\newpage", FALSE, 0),
       Pass("\\thispagestyle", FALSE, 1), Pass("\\pagenumbering", FALSE, 1),
       Pass("\\markboth", FALSE, 2), Pass("\\addcontentsline", FALSE, 3),
       Pass("\\blankpage", FALSE, 0), Pass("\\tableofcontents", FALSE, 0),
       Pass("\\listoftables", FALSE, 0), Pass("\\listoffigures", FALSE, 0),
       Pass("\\setlength", FALSE, 2), Pass("\\renewcommand", FALSE, 2),
       Pass("\\centering", FALSE, 0) >>

\* lines 104-105: the font size names
Sizes ==
    << "\\Huge", "\\LARGE", "\\Large", "\\large", "\\normalsize", "\\small",
       "\\footnotesize", "\\scriptsize", "\\tiny" >>

\* one of the lines 88-101
strip_pass(t, d) ==
    IF d.args = 0 THEN sub_plain(t, d.name, <<>>, 1)
    ELSE sub_args(t, d.name, d.star, d.args, 1)

RECURSIVE strip_listed(_, _)
strip_listed(t, k) ==
    IF k > Len(Listed) THEN t ELSE strip_listed(strip_pass(t, Listed[k]), k + 1)

RECURSIVE strip_sizes(_, _)
strip_sizes(t, k) ==
    IF k > Len(Sizes) THEN t ELSE strip_sizes(sub_word(t, Sizes[k], 1), k + 1)

\* lines 17-50: the citation table (two of its entries); the display texts
\* are Arabic and are written here in Latin letters
CITATIONS ==
    [k \in {"buhalis2020", "cooper2018"} |->
        IF k = "buhalis2020" THEN "Buhalis, 2020" ELSE "Cooper, 2018"]

\* Mutation: the key is printed whatever the table holds
replace_cite_raw(key) == <<"(">> \o key \o <<")">>

\* lines 72-75: key is group(1), the tokens between the braces
replace_cite(key) ==
    IF Len(key) = 1 /\ key[1] \in DOMAIN CITATIONS
    THEN <<"(", CITATIONS[key[1]], ")">>
    ELSE <<"(">> \o key \o <<")">>

\* line 85: re.sub(r'\\parencite\{([^}]*)\}', replace_cite, body)
RECURSIVE sub_cite(_, _)
sub_cite(t, i) ==
    IF i > Len(t) THEN <<>>
    ELSE LET j == IF t[i] = "\\parencite" /\ i + 1 <= Len(t) /\ t[i + 1] = "{"
                  THEN first_close(t, i + 2) ELSE 0
         IN  IF j # 0
             THEN replace_cite(SubSeq(t, i + 2, j - 1)) \o sub_cite(t, j + 1)
             ELSE <<t[i]>> \o sub_cite(t, i + 1)

\* lines 81-117: the substitutions before the bordered boxes are flattened
subs1(t) ==
    LET unwrapped == sub_braced(t, "\\textenglish", TRUE, 1)
        cited == sub_cite(unwrapped, 1)
        stripped == strip_sizes(strip_listed(cited, 1), 1)
    IN  sub_plain(stripped, "\\hfill", <<>>, 1)

MinRun == 4  \* convert_to_docx.py:196  newlines in a row that are collapsed

\* lines 144-147: the substitutions between the two flattening loops
subs2(t) == sub_braced(t, "\\label", FALSE, 1)

\* lines 169-196: the substitutions after the cell spans are flattened
\* the index of the first newline of t at or after i; Len(t) + 1 when there is none
line_end(t, i) ==
    LET S == {j \in i..Len(t) : t[j] = "\n"}
    IN  IF S = {} THEN Len(t) + 1 ELSE Min(S)

\* line 180: re.sub(r'^%.*$', '', t, flags=re.MULTILINE)
RECURSIVE comment_lines(_, _)
comment_lines(t, i) ==
    IF i > Len(t) THEN <<>>
    ELSE IF t[i] = "%" /\ (i = 1 \/ t[i - 1] = "\n")
         THEN comment_lines(t, line_end(t, i))
         ELSE <<t[i]>> \o comment_lines(t, i + 1)

\* line 182: re.sub(r'(?<!\\)%.*$', '', t, flags=re.MULTILINE); the character
\* before the % is looked at, "\\" is the token of one backslash
RECURSIVE comment_inline(_, _)
comment_inline(t, i) ==
    IF i > Len(t) THEN <<>>
    ELSE IF t[i] = "%" /\ ~(i > 1 /\ t[i - 1] = "\\")
         THEN comment_inline(t, line_end(t, i))
         ELSE <<t[i]>> \o comment_inline(t, i + 1)

\* the number of newlines of t from i on without another token between them
RECURSIVE newline_run(_, _)
newline_run(t, i) ==
    IF i <= Len(t) /\ t[i] = "\n" THEN 1 + newline_run(t, i + 1) ELSE 0

\* Mutation: runs of newlines stay as they are
collapse_none(t, i) == SubSeq(t, i, Len(t))

\* line 196: re.sub(r'\n{4,}', '\n\n\n', t)
RECURSIVE collapse(_, _)
collapse(t, i) ==
    IF i > Len(t) THEN <<>>
    ELSE LET r == newline_run(t, i)
         IN  IF r >= MinRun THEN <<"\n", "\n", "\n">> \o collapse(t, i + r)
             ELSE IF r > 0 THEN SubSeq(t, i, i + r - 1) \o collapse(t, i + r)
             ELSE <<t[i]>> \o collapse(t, i + 1)

\* lines 169-196: the substitutions after the cell spans are flattened (the
\* patterns of lines 170, 176, 185-193 match no token of the texts of this model)
subs3(t) ==
    LET dotted == sub_plain(t, "\\ldots", <<"...">>, 1)
        uncommented == comment_inline(comment_lines(dotted, 1), 1)
    IN  collapse(uncommented, 1)

\* lines 122, 151: the pattern \\name\{[^}]*\}\{[^}]*\}\{ tried at index s; the
\* index of its last token (the opening brace of the content), 0 when it fails
match_end(t, s, name) ==
    IF t[s] = name /\ s + 1 <= Len(t) /\ t[s + 1] = "{"
    THEN LET j1 == first_close(t, s + 2)
         IN  IF j1 = 0 \/ j1 + 1 > Len(t) \/ t[j1 + 1] # "{" THEN 0
             ELSE LET j2 == first_close(t, j1 + 2)
                  IN  IF j2 = 0 \/ j2 + 1 > Len(t) \/ t[j2 + 1] # "{" THEN 0
                      ELSE j2 + 1
    ELSE 0

\* lines 124, 153: re.search(pattern, text); the start of the leftmost match, 0 for None
search(t, name) ==
    LET S == {s \in 1..Len(t) : match_end(t, s, name) # 0}
    IN  IF S = {} THEN 0 ELSE Min(S)

\* Mutation: the loop may be left while the pattern still matches
no_match_unchecked(t, name) == TRUE

\* lines 125, 154: if not m: break
no_match(t, name) == search(t, name) = 0

\* Mutation: the scan goes on while the depth is positive, whatever its position
scan_cond_unguarded(t, p, depth) == depth > 0

\* lines 131, 158: while pos < len(text) and depth > 0  (p is pos + 1)
scan_cond(t, p, depth) == p <= Len(t) /\ depth > 0

\* lines 129-136, 156-163: the scan for the matching closing brace; text[pos]
\* raises IndexError when pos is not an index of text
RECURSIVE scan(_, _, _)
scan(t, p, depth) ==
    IF scan_cond(t, p, depth)
    THEN IF p > Len(t) THEN [pos |-> p, raised |-> TRUE]
         ELSE scan(t, p + 1, IF t[p] = "{" THEN depth + 1
                             ELSE IF t[p] = "}" THEN depth - 1 ELSE depth)
    ELSE [pos |-> p, raised |-> FALSE]

\* lines 127-140, 155-166: one turn of a flattening loop on a text that matches.
\* content is text[m.end():pos - 1] and the rest is text[pos:], as Python slices
flatten_once(t, name) ==
    LET start == search(t, name)
        brace_start == match_end(t, start, name)
        r == scan(t, brace_start + 1, 1)
        content_ == SubSeq(t, brace_start + 1, r.pos - 2)
    IN  [raised |-> r.raised,
         text |-> SubSeq(t, 1, start - 1) \o content_ \o SubSeq(t, r.pos, Len(t))]

\* line 81-117
clean_subs1 ==
    /\ cl_pc = "subs1"
    /\ text' = subs1(text)
    /\ cl_pc' = "fcolorbox"
    /\ UNCHANGED <<text0, flat>>
    /\ UNCHANGED <<asmVars, convVars, resVars, styVars, pipeVars>>

\* lines 123-140: one turn of the loop of remove_fcolorbox
remove_fcolorbox ==
    /\ cl_pc = "fcolorbox"
    /\ search(text, "\\fcolorbox") # 0
    /\ LET f == flatten_once(text, "\\fcolorbox")
       IN  IF f.raised
           THEN cl_pc' = "raised" /\ text' = text
           ELSE cl_pc' = "fcolorbox" /\ text' = f.text
    /\ UNCHANGED <<text0, flat>>
    /\ UNCHANGED <<asmVars, convVars, resVars, styVars, pipeVars>>

\* lines 125-126, 141-142: no match, remove_fcolorbox returns
remove_fcolorbox_return ==
    /\ cl_pc = "fcolorbox"
    /\ no_match(text, "\\fcolorbox")
    /\ flat' = text
    /\ cl_pc' = "subs2"
    /\ UNCHANGED <<text, text0>>
    /\ UNCHANGED <<asmVars, convVars, resVars, styVars, pipeVars>>

\* lines 144-147
clean_subs2 ==
    /\ cl_pc = "subs2"
    /\ text' = subs2(text)
    /\ cl_pc' = "multirow"
    /\ UNCHANGED <<text0, flat>>
    /\ UNCHANGED <<asmVars, convVars, resVars, styVars, pipeVars>>

\* lines 152-166: one turn of the loop of remove_multirow
remove_multirow ==
    /\ cl_pc = "multirow"
    /\ search(text, "\\multirow") # 0
    /\ LET f == flatten_once(text, "\\multirow")
       IN  IF f.raised
           THEN cl_pc' = "raised" /\ text' = text
           ELSE cl_pc' = "multirow" /\ text' = f.text
    /\ UNCHANGED <<text0, flat>>
    /\ UNCHANGED <<asmVars, convVars, resVars, styVars, pipeVars>>

\* lines 154-155, 167-168: no match, remove_multirow returns
remove_multirow_return ==
    /\ cl_pc = "multirow"
    /\ no_match(text, "\\multirow")
    /\ cl_pc' = "subs3"
    /\ UNCHANGED <<text, text0, flat>>
    /\ UNCHANGED <<asmVars, convVars, resVars, styVars, pipeVars>>

\* lines 169-198
clean_subs3 ==
    /\ cl_pc = "subs3"
    /\ text' = subs3(text)
    /\ cl_pc' = "returned"
    /\ UNCHANGED <<text0, flat>>
    /\ UNCHANGED <<asmVars, convVars, resVars, styVars, pipeVars>>

\* \name{x}{x}{  : a construct up to the opening brace of its content
Opening(name) == <<name, "{", "x", "}", "{", "x", "}", "{">>

CleanPieces ==
    { <<"x">>, <<"{">>, <<"}">>, <<"{", "x", "}">>,
      Opening("\\fcolorbox"), Opening("\\fcolorbox") \o <<"x", "}">>,
      Opening("\\multirow"),
      <<"\\vfill">>, <<"\\textenglish", "{">>, <<"\\label", "{", "x", "}">>, <<"\\ldots">> }

\* \parencite{key}
Cite(key) == <<"\\parencite", "{">> \o key \o <<"}">>

CitePieces ==
    { <<"x">>, <<"}">>, <<"\\parencite", "{">>, Cite(<<>>),
      Cite(<<"buhalis2020">>), Cite(<<"nokey">>), Cite(<<"buhalis2020", ",", "nokey">>) }

\* listed directives with their arguments, plain text, and directives that
\* are not in the list
StripPieces ==
    { <<"x">>, <<" ">>,
      <<"\\vspace", "*", "{", "1cm", "}">>, <<"\\newpage">>, <<"\\large">>,
      <<"\\setlength", "{", "1cm", "}", "{", "1cm", "}">>,
      <<"\\unknown">>, <<"\\vfillx">>, <<"\\largex">>, <<"\\vspacex", "{", "1cm", "}">> }

\* lines of text, blank lines, comments, escaped percent signs, line breaks
LinePieces ==
    { <<"x">>, <<"\n">>, <<"\n", "\n", "\n">>, <<"%">>, <<"%", "x", "\n">>,
      <<"\\", "%">>, <<"\\", "\\">> }

Bodies ==
    Concats(CleanPieces, MaxCleanPieces)
    \cup Concats(LinePieces, MaxCleanPieces)
    \cup Concats(CitePieces, MaxCleanPieces)
    \cup Concats(StripPieces, MaxCleanPieces)

----------------------------------------------------------------------------
(* Style Applicator: runs (style_docx.py) *)

ARABIC_FONT == "Traditional Arabic"

LATIN_FONT == "Times New Roman"

\* The Assembler's names for the same two fonts.
AF == "Traditional Arabic"

LF == "Times New Roman"

\* A run.  arabic: has_arabic(run.text), i.e. the text holds a code point in
\* U+0600..U+06FF or U+0750..U+077F.  ascii, hAnsi, cs: the attributes of
\* w:rFonts ("none": absent).  bold: w:b ("none": absent).  rtl: the w:rtl
\* element ("none": absent, "on": <w:rtl/>, "off": <w:rtl w:val="0"/>).
Fonts == {"none", ARABIC_FONT, LATIN_FONT, "Calibri"}

Flags == {"none", "on", "off"}

AnyRun == [arabic : BOOLEAN, ascii : Fonts, hAnsi : Fonts, cs : Fonts,
           bold : {"none", "on"}, rtl : Flags]

\* p.add_run(txt): a run without properties.
add_run(arabic) ==
    [arabic |-> arabic, ascii |-> "none", hAnsi |-> "none", cs |-> "none",
     bold |-> "none", rtl |-> "none"]

has_arabic(r) == r.arabic

\* w:rtl is appended when the text is Arabic and the element is absent; an
\* element that is already there is never removed nor rewritten.
rtl_for_arabic(r) ==
    IF has_arabic(r) THEN (IF r.rtl = "none" THEN "on" ELSE r.rtl) ELSE r.rtl

\* set_run_font(run, bold=b); b is "None", "True" or "False".
set_run_font(r, b) ==
    [r EXCEPT
        !.ascii = IF has_arabic(r) THEN ARABIC_FONT ELSE LATIN_FONT,
        !.hAnsi = IF has_arabic(r) THEN ARABIC_FONT ELSE LATIN_FONT,
        !.cs    = ARABIC_FONT,
        !.bold  = IF b = "None" THEN r.bold ELSE IF b = "True" THEN "on" ELSE "off",
        !.rtl   = rtl_for_arabic(r)]

\* _rf(run, fa=fa, bold=b) of the Assembler.
_rf(r, fa, b) ==
    [r EXCEPT
        !.ascii = LF,
        !.hAnsi = LF,
        !.cs    = fa,
        !.bold  = IF b THEN "on" ELSE "off",
        !.rtl   = IF r.rtl = "none" THEN "on" ELSE r.rtl]

\* The calls of _rf on the front matter: the text is Arabic or not, fa, bold.
FrontRuns ==
    {[arabic |-> TRUE,  fa |-> AF, bold |-> FALSE],    \* _ap, names on the title page
     [arabic |-> TRUE,  fa |-> AF, bold |-> TRUE],     \* headings, host institution label
     [arabic |-> FALSE, fa |-> LF, bold |-> TRUE],     \* 'Le Grand Monarque LGM'
     [arabic |-> FALSE, fa |-> AF, bold |-> FALSE]}    \* _deco

\* set_run_font on a run of the document.
style_run ==
    /\ sty_pc \in {"run", "styled"}
    /\ \E b \in {"None", "True", "False"} : run' = set_run_font(run, b)
    /\ sty_pc' = "styled"
    /\ UNCHANGED <<run0, paras, tables, fparas, applied>>
    /\ UNCHANGED <<asmVars, convVars, resVars, clVars, pipeVars>>

\* r = p.add_run(txt); _rf(r, ...) in the front-matter builders.
front_run ==
    /\ sty_pc = "run"
    /\ \E c \in FrontRuns :
        /\ run0' = add_run(c.arabic)
        /\ run' = _rf(add_run(c.arabic), c.fa, c.bold)
    /\ sty_pc' = "front"
    /\ UNCHANGED <<paras, tables, fparas, applied>>
    /\ UNCHANGED <<asmVars, convVars, resVars, clVars, pipeVars>>

----------------------------------------------------------------------------
(* Style Applicator: paragraphs and tables (style_docx.py) *)

\* set_paragraph_format: whatever the other arguments, the paragraph ends
\* with w:bidi in its properties.  A paragraph is a record with style (the
\* style name), empty (text.strip() is empty) and bidi.
set_paragraph_format(p) == [p EXCEPT !.bidi = TRUE]

\* set_paragraph_runs_font(para, bold=b) on the list of runs of a paragraph.
set_paragraph_runs_font(runs, b) ==
    [k \in DOMAIN runs |-> set_run_font(runs[k], b)]

\* A table is a sequence of rows, a row a sequence of w:tc elements.  A tc
\* holds vMerge ("none", "restart", "continue"), span (w:gridSpan), shd
\* (a w:shd element is present), borders (a w:tcBorders element is
\* present), and one paragraph: bidi and its runs.
ColCount == 2

MaxRows == 2

RunLists == {<<>>, <<add_run(FALSE), add_run(TRUE)>>}

Tc(span) ==
    [vMerge : {"none", "restart", "continue"}, span : {span}, shd : {FALSE},
     borders : {FALSE}, bidi : {FALSE}, runs : RunLists]

Rows == {<<a, b>> : a \in Tc(1), b \in Tc(1)} \cup {<<a>> : a \in Tc(2)}

\* A w:tc that continues a vertical merge has, in the row above, a tc of the
\* same span that starts or continues the merge.
WellFormed(t) ==
    \A i \in DOMAIN t : \A c \in DOMAIN t[i] :
        t[i][c].vMerge = "continue" =>
            /\ i > 1
            /\ Len(t[i - 1]) = Len(t[i])
            /\ t[i - 1][c].vMerge \in {"restart", "continue"}

RowLists(n) == IF n = 0 THEN {<<>>} ELSE [1..n -> Rows]

Tables == {t \in UNION {RowLists(n) : n \in 0..MaxRows} : WellFormed(t)}

\* The tc of a row that covers grid column g.
tc_at(row, g) == IF Len(row) = 1 THEN 1 ELSE g

\* row.cells of the document library, per grid column: a tc that continues
\* a vertical merge is answered with the cell of the row above, and a tc
\* spanning several grid columns is answered once per column.
RECURSIVE cell_of(_, _, _)
cell_of(t, i, g) ==
    LET c == tc_at(t[i], g)
    IN  IF t[i][c].vMerge = "continue" /\ i > 1
        THEN cell_of(t, i - 1, g)
        ELSE <<i, c>>

row_cells(t, i) == [g \in 1..ColCount |-> cell_of(t, i, g)]

\* set_cell_shading: a w:shd element is appended.
set_cell_shading(tc) == [tc EXCEPT !.shd = TRUE]

\* set_cell_borders: a w:tcBorders element is appended.
set_cell_borders(tc) == [tc EXCEPT !.borders = TRUE]

\* the header test of the loop body: i == 0, rows counted from 1 here
is_header(i) == i = 1

\* The body of the inner loop of set_table_style for one cell of row i.
style_cell(tc, i) ==
    LET a == set_cell_borders(tc)
        b == [a EXCEPT !.bidi = TRUE,
                       !.runs = set_paragraph_runs_font(a.runs, "None")]
    IN  IF is_header(i)
        THEN [set_cell_shading(b) EXCEPT
                 !.runs = set_paragraph_runs_font(b.runs, "True")]
        ELSE b

\* for i, row in enumerate(table.rows): for cell in row.cells: ...
\* from row i, grid column g on.
RECURSIVE style_from(_, _, _, _)
style_from(t, cur, i, g) ==
    IF i > Len(t) THEN cur
    ELSE IF g > ColCount THEN style_from(t, cur, i + 1, 1)
    ELSE LET ref == row_cells(t, i)[g]
         IN  style_from(t,
                        [cur EXCEPT ![ref[1]][ref[2]] = style_cell(@, i)],
                        i, g + 1)

set_table_style(t) == style_from(t, t, 1, 1)

\* set_table_style on the tables of the document.
style_table ==
    /\ sty_pc = "table"
    /\ tables' = [k \in DOMAIN tables |-> set_table_style(tables[k])]
    /\ sty_pc' = "tstyled"
    /\ UNCHANGED <<run, run0, paras, fparas, applied>>
    /\ UNCHANGED <<asmVars, convVars, resVars, clVars, pipeVars>>

----------------------------------------------------------------------------
(* Footers: add_header_footer (style_docx.py) and setup_sections (merge_docs.py) *)

\* A footer is the list of its paragraphs, a paragraph the list of its runs,
\* a run the list of what it holds: "t" (text), "fldChar begin",
\* "instrText PAGE" (the instruction text ' PAGE '), "fldChar end".
\* Linked stands for a footer without a definition of its own.
Linked == <<"linked">>

Triad == << <<"fldChar begin">>, <<"instrText PAGE">>, <<"fldChar end">> >>

MaxFooterParas == 2

MaxApply == 3

FooterParas ==
    {<<>>, << <<"t">> >>, Triad, << <<"t">> >> \o Triad, Triad \o Triad,
     << <<"fldChar begin">> >>, << <<"fldChar begin">>, <<"instrText PAGE">> >>,
     << <<"fldChar begin", "instrText PAGE", "fldChar end">> >>,
     Triad \o << <<"t">> >>}

Footers ==
    {Linked} \cup UNION {[1..n -> FooterParas] : n \in 1..MaxFooterParas} \cup {<<>>}

\* footer.is_linked_to_previous = False: a footer without a definition gets
\* a new one, which holds one empty paragraph.
unlink(f) == IF f = Linked THEN << <<>> >> ELSE f

\* fp = footer.paragraphs[0] if there is one, else footer.add_paragraph():
\* the footer with the paragraph fp in first place.
with_first(f) == IF f = <<>> THEN << <<>> >> ELSE f

\* fp.text = '' without the removal of what the paragraph held.
clear_text_kept(p) == Append(p, <<>>)

\* fp.text = '': the content of the paragraph is removed and one run with
\* the empty text is added.
clear_text(p) == << <<>> >>

\* Three calls of fp.add_run(), each run given one element.
add_page_field(p) == p \o Triad

\* add_header_footer, the footer part (lines 256-284).
add_header_footer(f) ==
    LET g == with_first(unlink(f))
    IN  [g EXCEPT ![1] = add_page_field(clear_text(g[1]))]

\* setup_sections, the footer of the body section (lines 401-415): every
\* paragraph is cleared, then the first one receives the three runs.
setup_footer(f) ==
    LET u == unlink(f)
        g == with_first([k \in DOMAIN u |-> <<>>])
    IN  [g EXCEPT ![1] = add_page_field(g[1])]

\* The runs of a paragraph that hold something else than text.
FieldRuns(p) == SelectSeq(p, LAMBDA r : r # <<>> /\ r # <<"t">>)

\* add_header_footer(section) of the Style Applicator on the footer.
style_footer ==
    /\ sty_pc = "footer"
    /\ applied < MaxApply
    /\ fparas' = add_header_footer(fparas)
    /\ applied' = applied + 1
    /\ UNCHANGED <<sty_pc, run, run0, paras, tables>>
    /\ UNCHANGED <<asmVars, convVars, resVars, clVars, pipeVars>>

\* The footer block of setup_sections of the Assembler on the footer.
assemble_footer ==
    /\ sty_pc = "footer"
    /\ applied < MaxApply
    /\ fparas' = setup_footer(fparas)
    /\ applied' = applied + 1
    /\ UNCHANGED <<sty_pc, run, run0, paras, tables>>
    /\ UNCHANGED <<asmVars, convVars, resVars, clVars, pipeVars>>

----------------------------------------------------------------------------
(* Style Applicator: main (style_docx.py 291-652) *)

\* for i in range(25, total): the body starts at paragraph 25, counted from 0
BodyStart == 25

MaxBody == 2

HeadingStyles == {"Heading 1", "Heading 2", "Heading 3", "Heading 4"}

Para(style, empty, bidi) == [style |-> style, empty |-> empty, bidi |-> bidi]

AnyPara == [style : {"Normal", "Heading 2", "Body Text"}, empty : BOOLEAN,
            bidi : BOOLEAN]

\* The documents: no, four or twenty-five paragraphs of front matter, then
\* up to MaxBody paragraphs of any kind.
FrontLens == {0, 4, BodyStart}

BodyTails == UNION {[1..n -> AnyPara] : n \in 0..MaxBody}

StyleDocs ==
    {[i \in 1..n |-> Para("Normal", FALSE, FALSE)] \o tail :
        n \in FrontLens, tail \in BodyTails}

\* A table of a header row and one more row, no merged cells.
PlainTable ==
    LET tc == [vMerge |-> "none", span |-> 1, shd |-> FALSE, borders |-> FALSE,
               bidi |-> FALSE, runs |-> <<add_run(TRUE)>>]
    IN  <<<<tc, tc>>, <<tc, tc>>>>

\* Parts 3 and 4 of main (lines 437-560): paragraphs 0, 1, 2 of the title
\* page, then 5, 6-12, 13, 14-19, 20, 21-24, each only if it exists.
\* Indices here count from 1.
front_styled(i) == i \in {1, 2, 3} \/ (i >= 6 /\ i <= BodyStart)

style_front ==
    /\ sty_pc = "main"
    /\ paras' = [i \in DOMAIN paras |->
                    IF front_styled(i) THEN set_paragraph_format(paras[i])
                    ELSE paras[i]]
    /\ sty_pc' = "body"
    /\ UNCHANGED <<run, run0, tables, fparas, applied>>
    /\ UNCHANGED <<asmVars, convVars, resVars, clVars, pipeVars>>

\* Part 5 of main (lines 562-630): the paragraphs of the four heading styles
\* wherever they are, then from paragraph 25 on the paragraphs of style
\* 'Normal' whose stripped text is not empty.
body_styled(p, i) ==
    \/ p.style \in HeadingStyles
    \/ (i > BodyStart /\ p.style = "Normal" /\ ~p.empty)

style_body ==
    /\ sty_pc = "body"
    /\ paras' = [i \in DOMAIN paras |->
                    IF body_styled(paras[i], i) THEN set_paragraph_format(paras[i])
                    ELSE paras[i]]
    /\ sty_pc' = "tables"
    /\ UNCHANGED <<run, run0, tables, fparas, applied>>
    /\ UNCHANGED <<asmVars, convVars, resVars, clVars, pipeVars>>

\* Part 6 (lines 635-636): for table in doc.tables: set_table_style(table)
style_tables ==
    /\ sty_pc = "tables"
    /\ tables' = [k \in DOMAIN tables |-> set_table_style(tables[k])]
    /\ sty_pc' = "footers"
    /\ UNCHANGED <<run, run0, paras, fparas, applied>>
    /\ UNCHANGED <<asmVars, convVars, resVars, clVars, pipeVars>>

\* Part 7 (lines 641-642): for section in doc.sections: add_header_footer(section)
style_footers ==
    /\ sty_pc = "footers"
    /\ fparas' = add_header_footer(fparas)
    /\ applied' = applied + 1
    /\ sty_pc' = "save"
    /\ UNCHANGED <<run, run0, paras, tables>>
    /\ UNCHANGED <<asmVars, convVars, resVars, clVars, pipeVars>>

\* doc.save(OUTPUT)
style_save ==
    /\ sty_pc = "save"
    /\ sty_pc' = "done"
    /\ UNCHANGED <<run, run0, paras, tables, fparas, applied>>
    /\ UNCHANGED <<asmVars, convVars, resVars, clVars, pipeVars>>

----------------------------------------------------------------------------
(* The package files the three stages read and write *)

MaxRevision == 3  \* revisions of main.tex the converter is run on
MaxStages == 4    \* stages applied to one converted content

\* style_docx.py, lines 30-31
INPUT == "main_word.docx"
STYLED == "main_word_styled.docx"

\* merge_docs.py, lines 21-22
BODY_DOCX == "main_word_styled.docx"
OUTPUT == "main_word_final.docx"

PackageFiles == {output_docx, INPUT, STYLED, BODY_DOCX, OUTPUT}

\* a content is the revision of main.tex it was converted from (0: the file
\* does not exist) and the stages that have worked on it since
Absent == [tex |-> 0, stages |-> <<>>]

\* convert_to_docx.py, lines 358-371: pandoc ... -o main_word.docx
run_convert ==
    /\ \E rev \in 1..MaxRevision, made \in BOOLEAN :
        pkgs' = IF made
                THEN [pkgs EXCEPT ![output_docx] = [tex |-> rev, stages |-> <<>>]]
                ELSE pkgs
    /\ ran' = "convert"
    /\ UNCHANGED loaded
    /\ UNCHANGED <<asmVars, convVars, resVars, clVars, styVars>>

\* style_docx.py, main: Document(INPUT) at line 293, doc.save(OUTPUT) at line
\* 645; Document raises when the file does not exist
run_style ==
    /\ Len(pkgs[INPUT].stages) < MaxStages
    /\ loaded' = pkgs[INPUT]
    /\ pkgs' = IF pkgs[INPUT] = Absent THEN pkgs
               ELSE [pkgs EXCEPT ![STYLED] =
                        [pkgs[INPUT] EXCEPT !.stages = Append(@, "style")]]
    /\ ran' = "style"
    /\ UNCHANGED <<asmVars, convVars, resVars, clVars, styVars>>

\* merge_docs.py, line 493: shutil.copy2(OUTPUT, os.path.join(BASE, 'main_word.docx'))
copy_final(files_, final) == [files_ EXCEPT !["main_word.docx"] = final]

\* merge_docs.py, main: Document(BODY_DOCX) at line 468 (raises when the file
\* does not exist), doc.save(OUTPUT) at line 474, the copy at line 493
run_assemble ==
    /\ Len(pkgs[BODY_DOCX].stages) < MaxStages
    /\ pkgs' = IF pkgs[BODY_DOCX] = Absent THEN pkgs
               ELSE LET final == [pkgs[BODY_DOCX] EXCEPT
                                     !.stages = Append(@, "assemble")]
                    IN  copy_final([pkgs EXCEPT ![OUTPUT] = final], final)
    /\ ran' = "assemble"
    /\ UNCHANGED loaded
    /\ UNCHANGED <<asmVars, convVars, resVars, clVars, styVars>>

----------------------------------------------------------------------------
(* Specifications *)

PipeIdle ==
    /\ pkgs = [f \in PackageFiles |-> Absent] /\ loaded = Absent /\ ran = "none"

ConvIdle ==
    /\ conv_pc = "idle" /\ has_doc = FALSE /\ written = {} /\ calls = <<>>
    /\ returncodes = <<>> /\ warnings = 0 /\ out_exists = FALSE /\ printed = <<>>

ResIdle ==
    /\ res_pc = "idle" /\ files = <<>> /\ content = <<>> /\ prev = <<>>
    /\ source = <<>> /\ resolved = <<>> /\ iters = 0

CleanIdle == cl_pc = "idle" /\ text = <<>> /\ text0 = <<>> /\ flat = <<>>

StyleIdle ==
    /\ sty_pc = "idle" /\ run = <<>> /\ run0 = <<>> /\ paras = <<>>
    /\ tables = <<>> /\ fparas = <<>> /\ applied = 0

AsmIdle ==
    /\ pc = "idle" /\ kids = <<>> /\ body_rels = <<>> /\ fb = <<>> /\ final_rels = <<>>
    /\ copy_ret = "none" /\ warned = FALSE /\ saved = FALSE
    /\ fb0 = <<>> /\ rels0 = <<>> /\ fb1 = <<>>

\* main() of merge_docs.py on any styled body package
Init ==
    /\ pc = "title"
    /\ kids \in SourceBodies
    /\ body_rels = SourceRels
    /\ fb = NewDocument
    /\ final_rels = NewDocumentRels
    /\ copy_ret = "none"
    /\ warned = FALSE
    /\ saved = FALSE
    /\ fb0 = <<>>
    /\ rels0 = <<>>
    /\ fb1 = <<>>
    /\ ConvIdle /\ ResIdle /\ CleanIdle /\ StyleIdle /\ PipeIdle

Next ==
    \/ build_title_page
    \/ build_acknowledgments
    \/ build_dedication
    \/ copy_body
    \/ setup_sections
    \/ save

Spec == Init /\ [][Next]_vars

\* copy_body, setup_sections and save on any pair of packages
InitCall ==
    /\ pc = "copy"
    /\ kids \in CallBodies
    /\ body_rels = SourceRels
    /\ fb \in FinalBodies
    /\ final_rels \in FinalRels
    /\ copy_ret = "none"
    /\ warned = FALSE
    /\ saved = FALSE
    /\ fb0 = <<>>
    /\ rels0 = <<>>
    /\ fb1 = <<>>
    /\ ConvIdle /\ ResIdle /\ CleanIdle /\ StyleIdle /\ PipeIdle

NextCall ==
    \/ copy_body
    \/ setup_sections
    \/ save

SpecCall == InitCall /\ [][NextCall]_vars

\* main() of convert_to_docx.py: any source, with or without a main_word.docx
\* left by an earlier run
InitConvert ==
    /\ conv_pc = "read"
    /\ has_doc \in BOOLEAN
    /\ written = {}
    /\ calls = <<>>
    /\ returncodes = <<>>
    /\ warnings = 0
    /\ out_exists \in BOOLEAN
    /\ printed = <<>>
    /\ AsmIdle /\ ResIdle /\ CleanIdle /\ StyleIdle /\ PipeIdle

NextConvert ==
    \/ conv_read
    \/ conv_write_tex
    \/ conv_reference
    \/ conv_pandoc
    \/ conv_retry
    \/ conv_oserror
    \/ conv_report

SpecConvert == InitConvert /\ [][NextConvert]_vars

\* resolve_inputs on any source and any set of fragment files, then once more
\* on its result
InitResolve ==
    /\ res_pc = "first"
    /\ files \in FileSets
    /\ source \in Sources
    /\ content = source
    /\ prev = None
    /\ resolved = <<>>
    /\ iters = 0
    /\ AsmIdle /\ ConvIdle /\ CleanIdle /\ StyleIdle /\ PipeIdle

NextResolve ==
    \/ resolve_iter
    \/ resolve_return

SpecResolve == InitResolve /\ [][NextResolve]_vars

\* clean_latex on any body text
InitClean ==
    /\ cl_pc = "subs1"
    /\ text0 \in Bodies
    /\ text = text0
    /\ flat = <<>>
    /\ AsmIdle /\ ConvIdle /\ ResIdle /\ StyleIdle /\ PipeIdle

NextClean ==
    \/ clean_subs1
    \/ remove_fcolorbox
    \/ remove_fcolorbox_return
    \/ clean_subs2
    \/ remove_multirow
    \/ remove_multirow_return
    \/ clean_subs3

SpecClean == InitClean /\ [][NextClean]_vars

\* One run of the document handed to set_run_font, or one run synthesized
\* for the front matter.
InitRun ==
    /\ sty_pc = "run"
    /\ run \in AnyRun /\ run0 = run
    /\ paras = <<>> /\ tables = <<>> /\ fparas = <<>> /\ applied = 0
    /\ AsmIdle /\ ConvIdle /\ ResIdle /\ CleanIdle /\ PipeIdle

NextRun ==
    \/ style_run
    \/ front_run

SpecRun == InitRun /\ [][NextRun]_vars

\* One table handed to set_table_style.
InitTable ==
    /\ sty_pc = "table"
    /\ \E t \in Tables : tables = <<t>>
    /\ run = <<>> /\ run0 = <<>> /\ paras = <<>> /\ fparas = <<>> /\ applied = 0
    /\ AsmIdle /\ ConvIdle /\ ResIdle /\ CleanIdle /\ PipeIdle

NextTable == style_table

SpecTable == InitTable /\ [][NextTable]_vars

\* One footer, set up any number of times by either program.
InitFooter ==
    /\ sty_pc = "footer"
    /\ fparas \in Footers /\ applied = 0
    /\ run = <<>> /\ run0 = <<>> /\ paras = <<>> /\ tables = <<>>
    /\ AsmIdle /\ ConvIdle /\ ResIdle /\ CleanIdle /\ PipeIdle

NextFooter ==
    \/ style_footer
    \/ assemble_footer

SpecFooter == InitFooter /\ [][NextFooter]_vars

\* One run of the Style Applicator on a converted document.
InitStyle ==
    /\ sty_pc = "main"
    /\ paras \in StyleDocs
    /\ tables \in {<<>>, <<PlainTable>>}
    /\ fparas \in {Linked, <<Triad>>} /\ applied = 0
    /\ run = <<>> /\ run0 = <<>>
    /\ AsmIdle /\ ConvIdle /\ ResIdle /\ CleanIdle /\ PipeIdle

NextStyle ==
    \/ style_front
    \/ style_body
    \/ style_tables
    \/ style_footers
    \/ style_save

SpecStyle == InitStyle /\ [][NextStyle]_vars

\* the three scripts run by hand, in any order and any number of times, in a
\* directory that holds none of the packages yet
InitPipeline ==
    /\ pkgs = [f \in PackageFiles |-> Absent]
    /\ loaded = Absent
    /\ ran = "none"
    /\ AsmIdle /\ ConvIdle /\ ResIdle /\ CleanIdle /\ StyleIdle

NextPipeline ==
    \/ run_convert
    \/ run_style
    \/ run_assemble

SpecPipeline == InitPipeline /\ [][NextPipeline]_vars

----------------------------------------------------------------------------
(* Properties of the Assembler *)

\* the elements of the destination body that are copies of source elements
Copies == SelectSeq(fb, LAMBDA ch : ch.src # 0)

\* the reference attributes of a copy whose source value named an image or
\* hyperlink relationship name an equal relationship of the destination
RefsResolve(ne) ==
    \A i \in DOMAIN ne.refs :
        LET old == kids[ne.src].refs[i]
        IN  (old \in DOMAIN body_rels /\ body_rels[old].reltype \in {IMAGE_REL, HLINK_REL})
            => /\ ne.refs[i] \in DOMAIN final_rels
               /\ final_rels[ne.refs[i]] = body_rels[old]

\* C1: after copy_body every r:embed, r:link or r:id attribute of a copied
\* element that named an image or hyperlink relationship of the source package
\* names a relationship of the destination package with the same target: no
\* copied image or hyperlink reference is dangling.
C1_NoDanglingReference ==
    copy_ret = "true" => \A n \in 1..Len(Copies) : RefsResolve(Copies[n])

\* what a copy keeps of the source element it was made from
SameContent(ne, ch) ==
    /\ ne.tag = ch.tag /\ ne.style = ch.style /\ ne.marker = ch.marker
    /\ ne.pPr = ch.pPr /\ ne.nrun = ch.nrun
    /\ Len(ne.refs) = Len(ch.refs) /\ Len(ne.sects) = Len(ch.sects)

IsCopiesInOrder(mid) ==
    /\ \A i \in 1..Len(mid) : mid[i].src # 0 /\ SameContent(mid[i], kids[mid[i].src])
    /\ \A i, j \in 1..Len(mid) : i < j => mid[i].src < mid[j].src

HasTrailingSect(body) == body # <<>> /\ Tag(Last(body)) = "sectPr"

\* C2: after copy_body on a destination whose body ends with a sectPr, the body
\* is its previous elements unchanged and in order, then the copies in source
\* order, then that same sectPr as the last child; without a trailing sectPr
\* the copies are appended at the end in source order.
C2_SpliceBeforeTrailingSect ==
    (pc = "sections" /\ copy_ret = "true") =>
        LET keep == IF HasTrailingSect(fb0) THEN SubSeq(fb0, 1, Len(fb0) - 1) ELSE fb0
            trailer == IF HasTrailingSect(fb0) THEN <<Last(fb0)>> ELSE <<>>
            mid == SubSeq(fb, Len(keep) + 1, Len(fb) - Len(trailer))
        IN  /\ Len(fb) >= Len(fb0)
            /\ fb = keep \o mid \o trailer
            /\ IsCopiesInOrder(mid)

C2_Witness ==
    /\ pc = "sections" /\ copy_ret = "true"
    /\ HasTrailingSect(fb0) /\ Len(fb0) >= 2
    /\ Len(Copies) >= 2

\* the sections of the document, in document order
SectionList == [n \in 1..Len(sections(fb)) |-> SectAt(fb, sections(fb)[n])]

PageNumbering ==
    /\ SectionList # <<>>
    /\ Last(SectionList).start = 1
    /\ Last(SectionList).footer = "page"
    /\ \A n \in 1..(Len(SectionList) - 1) : SectionList[n].footer = "empty"

NoCopiedHeaderFooter ==
    \A n \in 1..Len(Copies) : \A k \in 1..Len(kids[Copies[n].src].sects) :
        /\ kids[Copies[n].src].sects[k].footer = "linked"
        /\ kids[Copies[n].src].sects[k].header = "linked"

C4_BreakOnPrecedingParagraph ==
    (pc \in {"save", "done"} /\ ~warned) =>
        LET j == prev_index(fb1, intro_index(fb1))
        IN  j # 0 =>
              /\ fb[j].pPr
              /\ Len(fb[j].sects) = Len(fb1[j].sects) + 1
              /\ Last(fb[j].sects).type = "nextPage"
              /\ Last(fb[j].sects).pgSz = "A4"
              /\ Last(fb[j].sects).pgMar = "thesis"
              /\ Last(fb[j].sects).bidi

\* the position in the source body where the splice has to start: the first
\* Heading 1 paragraph with the marker, else paragraph number FallbackIdx
\* (counted from 0); 0 when there is neither
SpliceStart ==
    LET intro == {i \in 1..Len(kids) :
                     Tag(kids[i]) = "p" /\ StyleName(kids[i].style) = "Heading 1" /\ kids[i].marker}
        nth == {i \in 1..Len(kids) :
                   /\ Tag(kids[i]) = "p"
                   /\ Len(SelectSeq(SubSeq(kids, 1, i), LAMBDA ch : Tag(ch) = "p"))
                          = FallbackIdx + 1}
    IN  IF intro # {} THEN Min(intro) ELSE IF nth # {} THEN Min(nth) ELSE 0

\* C5: copy_body starts at the first Heading 1 paragraph holding the marker,
\* else at top-level paragraph index 25; no element before the start is copied
\* and every element at or after it that is no sectPr is copied exactly once.
C5_SpliceFromStart ==
    copy_ret # "none" =>
        /\ \A n \in 1..Len(Copies) : SpliceStart # 0 /\ Copies[n].src >= SpliceStart
        /\ \A i \in 1..Len(kids) :
              (SpliceStart # 0 /\ i >= SpliceStart /\ Tag(kids[i]) # "sectPr")
              => Cardinality({n \in 1..Len(Copies) : Copies[n].src = i}) = 1

C5_Witness ==
    /\ copy_ret = "true"
    /\ \A i \in 1..Len(kids) : ~(StyleName(kids[i].style) = "Heading 1" /\ kids[i].marker)
    /\ \E i \in 1..Len(kids) : kids[i].marker
    /\ Len(Copies) >= 2
    /\ Len(kids) > Len(Copies)

----------------------------------------------------------------------------
(* C6: in one run the converter is invoked at most twice; the second       *)
(* invocation happens exactly when the first exited with failure and has   *)
(* the arguments of the first without the direction, language and wrap     *)
(* flags; when the second fails too the run ends there, with no further    *)
(* invocation and without reporting success.                               *)

ReducedFlags == {"-M", "dir:rtl", "lang:ar", "--wrap=none"}

IsKept(a) == a \notin ReducedFlags

Reported(m) == \E i \in 1..Len(printed) : printed[i].msg = m

FirstFailed == Len(returncodes) >= 1 /\ returncodes[1] # 0

C6_RetryOnce ==
    /\ Len(calls) <= 2
    /\ Len(calls) = 2 =>
          /\ FirstFailed
          /\ \A f \in ReducedFlags : \E i \in 1..Len(calls[1]) : calls[1][i] = f
          /\ calls[2] = SelectSeq(calls[1], IsKept)
    /\ (FirstFailed /\ conv_pc # "retry") => Len(calls) = 2
    /\ (Len(returncodes) = 2 /\ returncodes[2] # 0) =>
          /\ conv_pc = "done"
          /\ ~Reported("SUCCESS")

C6_Witness ==
    /\ conv_pc = "done"
    /\ Len(calls) = 2
    /\ returncodes = <<1, 1>>
    /\ out_exists

----------------------------------------------------------------------------
\* C7: main writes the final package in every case: when copy_body finds no
\* splice start and when setup_sections finds no introduction heading only that
\* step is given up, the later steps run, and the process is not stopped.
C7_AlwaysSaves ==
    /\ pc # "raised"
    /\ copy_ret = "false" => pc \in {"sections", "save", "done"}
    /\ warned => pc \in {"save", "done"}
    /\ pc = "done" => saved

C7_Witness == pc = "done" /\ saved /\ copy_ret = "false" /\ warned

----------------------------------------------------------------------------
(* C8: resolve_inputs is idempotent: with the fragment files fixed, a      *)
(* second call on the result of a call that returned goes through no       *)
(* change of the text and returns that same result.                        *)

C8_Idempotent == res_pc \in {"second", "done"} => content = resolved

C8_Witness ==
    /\ res_pc = "done"
    /\ resolved # source
    /\ \E i \in 1..Len(resolved) :
          /\ resolved[i] = "\\input"
          /\ i + 1 <= Len(resolved)
          /\ resolved[i + 1] = "{"
          /\ first_close(resolved, i + 2) > i + 2

----------------------------------------------------------------------------
(* C9: for every input holding a construct \fcolorbox{a}{b}{content} whose *)
(* content has balanced braces, flattening puts exactly content in the     *)
(* place of the construct: the content is in the result as one block, and  *)
(* when the construct is the only bordered box of the input the result is  *)
(* the text before it, content, and the text after it.                     *)

\* the text remove_fcolorbox is given
FlatIn == subs1(text0)

\* opening braces minus closing braces of t[a..b]
Net(t, a, b) ==
    Cardinality({i \in a..b : t[i] = "{"}) - Cardinality({i \in a..b : t[i] = "}"})

\* index of the brace that closes the brace at k; 0 when it is never closed
Closing(t, k) ==
    LET S == {e \in (k + 1)..Len(t) : Net(t, k + 1, e) = -1}
    IN  IF S = {} THEN 0 ELSE Min(S)

\* <<s, k, e>>: a bordered box from s, content brace at k, closed at e, with no
\* bordered box inside its content
BoxConstructs(t) ==
    LET K(s) == match_end(t, s, "\\fcolorbox")
        S == {s \in 1..Len(t) :
                 /\ K(s) # 0
                 /\ Closing(t, K(s)) # 0
                 /\ \A i \in (K(s) + 1)..(Closing(t, K(s)) - 1) : t[i] # "\\fcolorbox"}
    IN  {<<s, K(s), Closing(t, K(s))>> : s \in S}

HoldsBlock(t, b) == \E i \in 0..(Len(t) - Len(b)) : SubSeq(t, i + 1, i + Len(b)) = b

Flattened == cl_pc \in {"subs2", "multirow", "subs3", "returned"}

C9_FlattenYieldsContent ==
    Flattened =>
        \A c \in BoxConstructs(FlatIn) :
            LET pre == SubSeq(FlatIn, 1, c[1] - 1)
                cont == SubSeq(FlatIn, c[2] + 1, c[3] - 1)
                post == SubSeq(FlatIn, c[3] + 1, Len(FlatIn))
            IN  /\ HoldsBlock(flat, cont)
                /\ Cardinality({i \in 1..Len(FlatIn) : FlatIn[i] = "\\fcolorbox"}) = 1
                      => flat = pre \o cont \o post

----------------------------------------------------------------------------
(* C10: clean_latex returns for every input, also with unbalanced braces   *)
(* and unterminated constructs: no step raises, every turn of a flattening *)
(* loop makes the text shorter, and every other step moves clean_latex on  *)
(* to its next stage, so no loop runs forever.                             *)

StageRank(p) ==
    CASE p = "idle" -> 0
      [] p = "subs1" -> 1
      [] p = "fcolorbox" -> 2
      [] p = "subs2" -> 3
      [] p = "multirow" -> 4
      [] p = "subs3" -> 5
      [] p = "returned" -> 6
      [] OTHER -> 7

C10_ReturnsWithoutRaising ==
    /\ [](cl_pc # "raised")
    /\ [][\/ StageRank(cl_pc') > StageRank(cl_pc)
          \/ /\ cl_pc' = cl_pc
             /\ cl_pc \in {"fcolorbox", "multirow"}
             /\ Len(text') < Len(text)]_vars

C10_Witness ==
    /\ cl_pc = "returned"
    /\ \E s \in 1..Len(FlatIn) :
          /\ match_end(FlatIn, s, "\\fcolorbox") # 0
          /\ Closing(FlatIn, match_end(FlatIn, s, "\\fcolorbox")) = 0
    /\ \E s \in 1..Len(text0) :
          /\ match_end(text0, s, "\\multirow") # 0
          /\ Closing(text0, match_end(text0, s, "\\multirow")) = 0
    /\ Net(text0, 1, Len(text0)) # 0

----------------------------------------------------------------------------
(* C11: clean_latex puts in the place of every \parencite{key} the text    *)
(* "(" display text ")" when key is in the citation table and "(" key ")"  *)
(* with the key as written when it is not; \parencite{buhalis2020} becomes *)
(* the display text of buhalis2020 in parentheses.                         *)

CiteAlphabet == {"x", "\\parencite", "{", "}", ",", "buhalis2020", "nokey"}

IsCiteText(t) == \A i \in 1..Len(t) : t[i] \in CiteAlphabet

\* what the body is to become: every \parencite{...} from the left, the rest kept
RECURSIVE Cited(_)
Cited(t) ==
    IF t = <<>> THEN <<>>
    ELSE LET S == {j \in 3..Len(t) : t[j] = "}"}
         IN  IF Len(t) >= 3 /\ t[1] = "\\parencite" /\ t[2] = "{" /\ S # {}
             THEN LET j == Min(S)
                      key == SubSeq(t, 3, j - 1)
                  IN  <<"(">>
                      \o (IF key = <<"buhalis2020">> THEN <<"Buhalis, 2020">> ELSE key)
                      \o <<")">> \o Cited(SubSeq(t, j + 1, Len(t)))
             ELSE <<t[1]>> \o Cited(Tail(t))

C11_CitationsReplaced ==
    (cl_pc = "returned" /\ IsCiteText(text0)) => text = Cited(text0)

C11_Witness ==
    /\ cl_pc = "returned"
    /\ \E a \in CitePieces :
          text0 = Cite(<<"buhalis2020">>) \o a \o Cite(<<"nokey">>)
    /\ text[2] = "Buhalis, 2020"

----------------------------------------------------------------------------
(* C12: the stripping of the listed directives leaves every directive with *)
(* another name where it is, also a directive whose name begins with a     *)
(* listed name.                                                            *)

UnknownNames == {"\\unknown", "\\vfillx", "\\largex", "\\vspacex"}

IsUnknownName(tok) == tok \in UnknownNames

StripAlphabet ==
    {"x", " ", "1cm", "{", "}", "*", "\\vspace", "\\newpage", "\\large", "\\setlength"}
    \cup UnknownNames

\* a text of the stripping alphabet whose unknown directives stand outside braces
IsStripText(t) ==
    /\ \A i \in 1..Len(t) : t[i] \in StripAlphabet
    /\ \A i \in 1..Len(t) : IsUnknownName(t[i]) => Net(t, 1, i) = 0

C12_UnknownNamesUntouched ==
    (cl_pc \notin {"idle", "subs1"} /\ IsStripText(text0)) =>
        SelectSeq(FlatIn, IsUnknownName) = SelectSeq(text0, IsUnknownName)

----------------------------------------------------------------------------
(* C13: of a body made of listed visual and layout directives, each with   *)
(* its brace arguments, and of plain text between them, clean_latex keeps  *)
(* the plain text, unchanged and in order, and nothing else;               *)
(* \vspace*{1cm}text\newpage becomes text.                                 *)

IsPlainTok(tok) == tok \in {"x", " "}

\* number of brace arguments of a listed directive; -1 for any other token
Arity(tok) ==
    LET K == {k \in 1..Len(Listed) : Listed[k].name = tok}
    IN  IF K # {} THEN Listed[CHOOSE k \in K : TRUE].args
        ELSE IF tok = "\\hfill" \/ \E k \in 1..Len(Sizes) : Sizes[k] = tok THEN 0
        ELSE -1

\* t[i..] is plain text and listed directives; a directive has its arguments,
\* made of argument text, right after its name (\vspace after an optional *),
\* and a name without arguments does not run into a letter
RECURSIVE IsListedText(_, _)
IsListedText(t, i) ==
    IF i > Len(t) THEN TRUE
    ELSE IF IsPlainTok(t[i]) THEN IsListedText(t, i + 1)
    ELSE IF Arity(t[i]) < 0 THEN FALSE
    ELSE LET a == IF t[i] = "\\vspace" /\ i + 1 <= Len(t) /\ t[i + 1] = "*"
                  THEN i + 2 ELSE i + 1
             j == args_end(t, a, Arity(t[i]))
         IN  /\ j # 0
             /\ \A k \in a..j : t[k] \in {"{", "}", "1cm"}
             /\ Arity(t[i]) = 0 => (j = Len(t) \/ t[j + 1] \notin WordTokens)
             /\ IsListedText(t, j + 1)

C13_ListedDirectivesRemoved ==
    (cl_pc = "returned" /\ IsListedText(text0, 1)) =>
        text = SelectSeq(text0, IsPlainTok)

----------------------------------------------------------------------------
(* C14: the output of clean_latex holds no 4 newlines in a row, and where  *)
(* the body held lines of text and blank lines only, every run of 4 or     *)
(* more newlines (so every run of 4 or more blank lines) has become 3      *)
(* newlines, which is 2 blank lines, and nothing else has changed.         *)

\* the runs of equal tokens of t, each as [tok, n]
RECURSIVE Runs(_)
Runs(t) ==
    IF t = <<>> THEN <<>>
    ELSE LET S == {j \in 1..Len(t) : t[j] # t[1]}
             n == IF S = {} THEN Len(t) ELSE Min(S) - 1
         IN  <<[tok |-> t[1], n |-> n]>> \o Runs(SubSeq(t, n + 1, Len(t)))

\* b is a with every run of 4 or more newlines made a run of 3
IsSqueezed(a, b) ==
    /\ Len(Runs(a)) = Len(Runs(b))
    /\ \A k \in 1..Len(Runs(a)) :
          /\ Runs(b)[k].tok = Runs(a)[k].tok
          /\ Runs(b)[k].n = IF Runs(a)[k].tok = "\n" /\ Runs(a)[k].n >= 4
                            THEN 3 ELSE Runs(a)[k].n

IsLinesOnly(t) == \A i \in 1..Len(t) : t[i] \in {"x", "\n"}

C14_BlankLinesCollapsed ==
    cl_pc = "returned" =>
        /\ \A i \in 1..(Len(text) - 3) :
              ~(\A k \in i..(i + 3) : text[k] = "\n")
        /\ IsLinesOnly(text0) => IsSqueezed(text0, text)

C14_Witness ==
    /\ cl_pc = "returned"
    /\ IsLinesOnly(text0)
    /\ \E k \in 1..Len(Runs(text0)) : Runs(text0)[k].tok = "\n" /\ Runs(text0)[k].n >= 5
    /\ \E i \in 1..Len(text) : text[i] = "x"

----------------------------------------------------------------------------
(* C15: clean_latex removes every full-line comment and, on every other    *)
(* line, the text from the first unescaped % to the end of the line; an    *)
(* escaped % (the % of \%) never starts a comment and the text around it   *)
(* is kept. A % is escaped when the backslash before it is not itself      *)
(* taken by a backslash before (an odd number of backslashes before it).   *)

IsCommentText(t) == \A i \in 1..Len(t) : t[i] \in {"x", "\n", "%", "\\"}

\* the number of backslashes right before index i
RECURSIVE BackslashesBefore(_, _)
BackslashesBefore(t, i) ==
    IF i > 1 /\ t[i - 1] = "\\" THEN 1 + BackslashesBefore(t, i - 1) ELSE 0

IsEscaped(t, i) == BackslashesBefore(t, i) % 2 = 1

\* t[i..] without its comments; skipping says that index i is inside a comment
RECURSIVE Uncommented(_, _, _)
Uncommented(t, i, skipping) ==
    IF i > Len(t) THEN <<>>
    ELSE IF t[i] = "\n" THEN <<"\n">> \o Uncommented(t, i + 1, FALSE)
    ELSE IF skipping \/ (t[i] = "%" /\ ~IsEscaped(t, i))
         THEN Uncommented(t, i + 1, TRUE)
         ELSE <<t[i]>> \o Uncommented(t, i + 1, FALSE)

C15_CommentsRemoved ==
    (cl_pc = "returned" /\ IsCommentText(text0)) =>
        IsSqueezed(Uncommented(text0, 1, FALSE), text)

----------------------------------------------------------------------------
\* C16: after set_run_font, whatever the run carried before, a run with
\* Arabic text has the Arabic font in ascii, hAnsi and cs and carries the
\* right-to-left flag; any other run has the Latin font in ascii and hAnsi
\* and carries no right-to-left flag.
C16_ScriptRule ==
    sty_pc = "styled" =>
        IF run.arabic
        THEN /\ run.ascii = ARABIC_FONT /\ run.hAnsi = ARABIC_FONT
             /\ run.cs = ARABIC_FONT
             /\ run.rtl = "on"
        ELSE /\ run.ascii = LATIN_FONT /\ run.hAnsi = LATIN_FONT
             /\ run.rtl # "on"

\* C17: a run synthesized for the front matter follows the script rule: with
\* Arabic text it has the Arabic font in cs and the right-to-left flag, with
\* other text it has the Latin font and no right-to-left flag.
C17_FrontRunsFollowScriptRule ==
    sty_pc = "front" =>
        IF run.arabic
        THEN run.cs = AF /\ run.rtl = "on"
        ELSE /\ run.ascii = LF /\ run.hAnsi = LF
             /\ run.rtl # "on"

C19_OnePageFieldTriad ==
    (sty_pc = "footer" /\ applied >= 1) =>
        /\ fparas # <<>>
        /\ FieldRuns(fparas[1]) = Triad

C19_Witness ==
    /\ sty_pc = "footer" /\ applied >= 2
    /\ FieldRuns(fparas[1]) = Triad

\* C20: after set_table_style, every cell of row 0 has the shading fill and
\* all its runs bold, no cell of a later row has shading, and every cell of
\* every row has a border.
C20_HeaderShadedAllBordered ==
    sty_pc = "tstyled" =>
        \A k \in DOMAIN tables : \A r \in DOMAIN tables[k] :
            \A c \in DOMAIN tables[k][r] :
                LET tc == tables[k][r][c]
                IN  /\ tc.borders
                    /\ r = 1 => /\ tc.shd
                                /\ \A n \in DOMAIN tc.runs : tc.runs[n].bold = "on"
                    /\ r > 1 => ~tc.shd

----------------------------------------------------------------------------
\* C21: resolve_inputs reaches a fixed point and so terminates, for every
\* source string and every finite set of fragment files, and at the fixed
\* point no inclusion directive naming an existing fragment file remains.
\* A loop that ends goes one level deeper into the chain of inclusions with
\* every turn that changes the text, and a chain without a repeated file is
\* no longer than the number of files: so it makes at most one changing
\* turn per file and then the turn that changes nothing.
Expandable(fs, c) ==
    \E i \in 1..Len(c) :
        /\ c[i] = "\\input" /\ i + 1 <= Len(c) /\ c[i + 1] = "{"
        /\ first_close(c, i + 2) > i + 2
        /\ LET fn == SubSeq(c, i + 2, first_close(c, i + 2) - 1)
           IN  (IF Last(fn) = TexExt THEN fn ELSE Append(fn, TexExt)) \in DOMAIN fs

C21_ReachesFixedPoint ==
    /\ res_pc \in {"first", "second"} => iters <= Cardinality(DOMAIN files) + 1
    /\ res_pc = "done" => ~Expandable(files, content)

----------------------------------------------------------------------------
\* C22: a directive whose target file does not exist (the name as written
\* when it ends in .tex, with .tex appended otherwise) is left exactly as
\* written and the call does not fail, while every other directive whose
\* target exists is expanded.  Expansion(fs, c, 1, d) is the text c with,
\* from the left, every directive naming a file of fs replaced by the
\* expansion of that file, and every other directive and every other
\* character kept; d bounds the depth of inclusion.
RECURSIVE Expansion(_, _, _, _)
Expansion(fs, c, i, d) ==
    IF i > Len(c) THEN <<>>
    ELSE LET j == IF c[i] = "\\input" /\ i + 1 <= Len(c) /\ c[i + 1] = "{"
                  THEN first_close(c, i + 2) ELSE 0
         IN  IF j > i + 2
             THEN LET fn == SubSeq(c, i + 2, j - 1)
                      name == IF Last(fn) = TexExt THEN fn ELSE Append(fn, TexExt)
                  IN  (IF name \in DOMAIN fs /\ d > 0
                       THEN Expansion(fs, fs[name], 1, d - 1)
                       ELSE SubSeq(c, i, j))
                      \o Expansion(fs, c, j + 1, d)
             ELSE <<c[i]>> \o Expansion(fs, c, i + 1, d)

C22_MissingTargetLeftLiteral ==
    res_pc \in {"second", "done"} => resolved = Expansion(files, source, 1, MaxTurns)

\* a returned call on a source with a directive whose target is missing
\* followed by a directive whose target exists
C22_Witness ==
    /\ res_pc = "done"
    /\ source = Input(<<"b">>) \o Input(<<"a">>)
    /\ DOMAIN files = {FileA}
    /\ resolved = Input(<<"b">>) \o files[FileA]
    /\ resolved # source

----------------------------------------------------------------------------
----------------------------------------------------------------------------
\* C27: a turn of a flattening loop deletes only the wrapper of the matched
\* construct: the directive name with its two arguments, the opening brace
\* of the content and the closing brace that matches it.  Every other
\* character stays, in its order, also when the opening brace of the
\* content is never closed before the end of the text.
Unwrapped(t, name) ==
    LET start == search(t, name)
        k == match_end(t, start, name)
        e == Closing(t, k)
    IN  IF e # 0
        THEN SubSeq(t, 1, start - 1) \o SubSeq(t, k + 1, e - 1) \o SubSeq(t, e + 1, Len(t))
        ELSE SubSeq(t, 1, start - 1) \o SubSeq(t, k + 1, Len(t))

C27_OnlyWrapperDeleted ==
    [][/\ (cl_pc = "fcolorbox" /\ cl_pc' = "fcolorbox")
            => text' = Unwrapped(text, "\\fcolorbox")
       /\ (cl_pc = "multirow" /\ cl_pc' = "multirow")
            => text' = Unwrapped(text, "\\multirow")]_vars

----------------------------------------------------------------------------
\* C24: when setup_sections finds no Heading1 paragraph holding the
\* introduction marker it skips the whole step: the document it was given
\* is unchanged (no section break added, the trailing section not rewritten,
\* no footer or header created or cleared) and the warning is printed.
NoIntroHeading(body) ==
    \A i \in 1..Len(body) :
        ~(Tag(body[i]) = "p" /\ body[i].style = "Heading1" /\ body[i].marker)

C24_SkippedStepChangesNothing ==
    (pc \in {"save", "done", "raised"} /\ NoIntroHeading(fb1)) =>
        /\ fb = fb1
        /\ warned
        /\ pc # "raised"

\* the step is skipped on a document that holds copied body elements, one
\* of them with the marker in a paragraph that is not a heading
C24_Witness ==
    /\ pc = "save" /\ warned /\ fb = fb1
    /\ copy_ret = "true"
    /\ \E i \in 1..Len(fb) : fb[i].marker /\ fb[i].style = "Normal"

----------------------------------------------------------------------------
\* C28: whenever copy_body found the splice start by its own match (style
\* name Heading 1 and the marker in the text), setup_sections on the merged
\* document takes as the introduction heading the copy of that element.
C28_LookupsAgree ==
    (/\ pc \in {"save", "done", "raised"}
     /\ copy_ret = "true"
     /\ \E i \in 1..Len(kids) : Tag(kids[i]) = "p" /\ IsIntroPara(kids[i]))
    => /\ intro_index(fb1) # 0
       /\ fb1[intro_index(fb1)].src = SpliceStart

----------------------------------------------------------------------------
\* C29: each reference attribute of a copied element is rewritten at most
\* once, from its source id to the id the map gives for that source id; the
\* map is never applied to a value that was already rewritten, also when a
\* new id equals another source id.
RidMap ==
    map_rels(DOMAIN body_rels, body_rels, [rid_map |-> <<>>, rels |-> rels0]).rid_map

C29_RewrittenOnce ==
    (pc = "sections" /\ copy_ret = "true") =>
        \A n \in 1..Len(Copies) : \A i \in DOMAIN Copies[n].refs :
            LET old == kids[Copies[n].src].refs[i]
            IN  Copies[n].refs[i] = IF old \in DOMAIN RidMap THEN RidMap[old] ELSE old

\* rId1 is mapped to rId2 and rId2 to rId3, and a reference to rId1 was copied
C29_Witness ==
    /\ pc = "sections" /\ copy_ret = "true"
    /\ 1 \in DOMAIN RidMap /\ RidMap[1] = 2
    /\ 2 \in DOMAIN RidMap /\ RidMap[2] = 3
    /\ \E n \in 1..Len(Copies) : \E i \in DOMAIN Copies[n].refs :
          kids[Copies[n].src].refs[i] = 1 /\ Copies[n].refs[i] = 2

----------------------------------------------------------------------------
\* C30: when no introduction heading is found and the source has 25 or
\* fewer top-level paragraphs, copy_body returns False, has added no
\* element and no relationship to the destination package, and has changed
\* nothing in the source.
NoStartElement ==
    /\ \A i \in 1..Len(kids) : ~(Tag(kids[i]) = "p" /\ IsIntroPara(kids[i]))
    /\ Len(Paragraphs(kids)) <= FallbackIdx

C30_FalseWithoutEffect ==
    [][(pc = "copy" /\ NoStartElement) =>
           /\ copy_ret' = "false"
           /\ fb' = fb /\ final_rels' = final_rels
           /\ kids' = kids /\ body_rels' = body_rels]_vars

\* copy_body has returned False on a source of exactly 25 paragraphs
C30_Witness ==
    /\ pc = "sections" /\ copy_ret = "false"
    /\ Len(Paragraphs(kids)) = FallbackIdx
    /\ fb = fb0 /\ final_rels = rels0

(* C26: the converter is invoked only after the cleaned markup file and    *)
(* the reference style template have both been written in the same run;    *)
(* when the resolved source has no begin/end document markers the run      *)
(* stops before writing any file and never invokes the converter.          *)

Invoked == calls # <<>>

C26_InvokedAfterBothWritten ==
    /\ Invoked => {pandoc_tex, ref_docx} \subseteq written
    /\ conv_pc \in {"pandoc", "retry"} => {pandoc_tex, ref_docx} \subseteq written
    /\ ~has_doc => /\ written = {}
                   /\ ~Invoked
                   /\ conv_pc \in {"read", "done"}

C26_Witness ==
    /\ Invoked
    /\ calls[1] = cmd
    /\ written = {pandoc_tex, ref_docx}

C26_WitnessNoMarkers ==
    /\ ~has_doc
    /\ conv_pc = "done"
    /\ Reported("ERROR: Could not find document")

(* C25: the three stages write three distinct package files: a run of the *)
(* Assembler writes only the final-assembled package and leaves the        *)
(* post-conversion package (main_word.docx) and the post-styling package   *)
(* unchanged, so that a run of the Style Applicator after the Assembler    *)
(* loads the converter's output and not assembled content.                 *)

Assembled(c) == \E i \in 1..Len(c.stages) : c.stages[i] = "assemble"

C25_AssemblerWritesOnlyFinal ==
    /\ [][ran' = "assemble" =>
            /\ pkgs'[output_docx] = pkgs[output_docx]
            /\ pkgs'[STYLED] = pkgs[STYLED]]_vars
    /\ [](ran = "style" => ~Assembled(loaded))

\* what does hold: the Assembler never touches the post-styling package, and
\* the Style Applicator never writes the final-assembled package
C25_StyledLeftAlone ==
    [][/\ ran' = "assemble" => pkgs'[STYLED] = pkgs[STYLED]
       /\ ran' = "style" => pkgs'[OUTPUT] = pkgs[OUTPUT]]_vars

====
